---- MODULE Spec2Model ----
(***************************************************************************)
(* Model of the utility billing reconciliation engine of                   *)
(* backend/src/excel/excel.service.ts (class ExcelService).                *)
(*                                                                         *)
(* Conventions                                                             *)
(*   - A text (a cell's string) is a sequence of one-character strings,    *)
(*     so that trimming, separators and digits are computed, not assumed.  *)
(*   - `T | null` is a sequence of length 0 (null) or 1 (the value).       *)
(*   - A number is a fixed-point integer in units of 1/SCALE (0.0001);     *)
(*     arithmetic is exact decimal arithmetic.                             *)
(***************************************************************************)
EXTENDS Integers, Sequences, FiniteSets, TLC

VARIABLES
    store,      \* uploadAnalysisStore: session id -> UploadAnalysisSession
    calls,      \* the locals of each running uploadExcelFiles call
    archive,    \* blob storage: <<caller, originalname>> written by the running uploads
    resp,       \* what the last upload or request returned or threw
    created,    \* history: the batch and the caller each session was created from
    phase,      \* position of the function-level specifications
    input,      \* argument of the function under check
    output,     \* its result
    prow,       \* parseWorksheetBlocks: the loop variable `row`
    precords,   \* parseWorksheetBlocks: the `records` built so far
    tmpfiles    \* the temporary files of the running uploads: <<caller, index>>

vars == <<store, calls, archive, resp, created, phase, input, output, prow, precords,
          tmpfiles>>

Null == <<>>
Some(v) == <<v>>
IsNull(o) == Len(o) = 0
Val(o) == o[1]

(***************************************************************************)
(* Bounds of the model and program constants.                              *)
(***************************************************************************)
SCALE == 100 * 100
\* VALIDATION_TOLERANCE = 0.05, in units of 1/SCALE
VALIDATION_TOLERANCE == 500

Abs(x) == IF x < 0 THEN -x ELSE x

(***************************************************************************)
(* Text helpers (String.prototype.trim, replace, includes).                *)
(***************************************************************************)
Digits == {"0", "1", "2", "3", "4", "5", "6", "7", "8", "9"}

DigitVal(c) ==
    CASE c = "0" -> 0 [] c = "1" -> 1 [] c = "2" -> 2 [] c = "3" -> 3
      [] c = "4" -> 4 [] c = "5" -> 5 [] c = "6" -> 6 [] c = "7" -> 7
      [] c = "8" -> 8 [] c = "9" -> 9

RECURSIVE TrimLeft(_)
TrimLeft(s) == IF Len(s) > 0 /\ s[1] = " " THEN TrimLeft(Tail(s)) ELSE s

RECURSIVE TrimRight(_)
TrimRight(s) ==
    IF Len(s) > 0 /\ s[Len(s)] = " " THEN TrimRight(SubSeq(s, 1, Len(s) - 1)) ELSE s

Trim(s) == TrimRight(TrimLeft(s))

Has(s, c) == \E i \in 1..Len(s) : s[i] = c

RemoveAll(s, c) == SelectSeq(s, LAMBDA x : x # c)

\* String.prototype.replace with a string pattern: the first occurrence only
ReplaceFirst(s, a, b) ==
    IF ~Has(s, a) THEN s
    ELSE LET i == CHOOSE k \in 1..Len(s) : s[k] = a /\ \A j \in 1..(k - 1) : s[j] # a
         IN  [s EXCEPT ![i] = b]

IndexOf(s, c) ==
    IF ~Has(s, c) THEN 0
    ELSE CHOOSE k \in 1..Len(s) : s[k] = c /\ \A j \in 1..(k - 1) : s[j] # c

AllDigits(s) == \A i \in 1..Len(s) : s[i] \in Digits

RECURSIVE DigitsToNat(_)
DigitsToNat(s) ==
    IF Len(s) = 0 THEN 0
    ELSE 10 * DigitsToNat(SubSeq(s, 1, Len(s) - 1)) + DigitVal(s[Len(s)])

\* The fraction digits as units of 1/SCALE (texts of the model carry at most
\* four fraction digits).
FractionUnits(f) ==
    LET f4 == SubSeq(f \o <<"0", "0", "0", "0">>, 1, 4) IN DigitsToNat(f4)

(***************************************************************************)
(* Number(text) of JavaScript on the alphabet of the model: an optional    *)
(* sign, then digits with at most one '.', at least one digit in all.      *)
(* Anything else is NaN (null here).  Number("") is 0.                     *)
(***************************************************************************)
JsDigits(ip, fp) ==
    IF AllDigits(ip) /\ AllDigits(fp) /\ Len(ip) + Len(fp) > 0
      THEN Some(DigitsToNat(ip) * SCALE + FractionUnits(fp))
      ELSE Null

\* the digits before and after the '.' at position p of body (0: no '.')
JsSplitAt(body, p) ==
    JsDigits(IF p = 0 THEN body ELSE SubSeq(body, 1, p - 1),
             IF p = 0 THEN <<>> ELSE SubSeq(body, p + 1, Len(body)))

JsUnsigned(body) == JsSplitAt(body, IndexOf(body, "."))

Negate(o) == IF IsNull(o) THEN Null ELSE Some(-Val(o))

JsNumber(s) ==
    IF Len(s) = 0 THEN Some(0)
    ELSE IF s[1] = "-" THEN Negate(JsUnsigned(Tail(s)))
    ELSE IF s[1] = "+" THEN JsUnsigned(Tail(s))
    ELSE JsUnsigned(s)

\* a normalisation that keeps the points beside a comma
NormalizeCommaOnly(noSpace) ==
    IF Has(noSpace, ",") THEN ReplaceFirst(noSpace, ",", ".") ELSE noSpace
\* lines 1923-1931: spaces removed, then the decimal comma made a point
NormalizeSeparators(noSpace) ==
    IF Has(noSpace, ",") /\ Has(noSpace, ".")
      THEN ReplaceFirst(RemoveAll(noSpace, "."), ",", ".")
    ELSE IF Has(noSpace, ",")
      THEN ReplaceFirst(noSpace, ",", ".")
    ELSE noSpace

ParseTrimmed(trimmed) ==
    IF Len(trimmed) = 0 THEN Null
    ELSE JsNumber(NormalizeSeparators(RemoveAll(trimmed, " ")))

ParsePolishNumber(rawValue) ==
    IF Len(rawValue) = 0 THEN Null ELSE ParseTrimmed(Trim(rawValue))

(***************************************************************************)
(* roundTo2: Math.round(value * 100) / 100, where value = num / den units. *)
(* Math.round rounds half up (towards +infinity); \div is floor division.  *)
(***************************************************************************)
RoundTo2(num, den) == ((num + den * 50) \div (den * 100)) * 100

(***************************************************************************)
(* Text order: localeCompare (the collation of the engine).  Texts are     *)
(* compared by the primary weights of their characters, a proper prefix    *)
(* first; texts equal at that level are told apart by the variants of      *)
(* their characters (lower case before upper case, a digit before its      *)
(* full-width form).  Characters outside ASCII are named by a word:        *)
(* "lstroke" and "LSTROKE" are U+0142 and U+0141, "FULLWIDTH1" is U+FF11,  *)
(* which collates as the digit 1 and is no \d of a regular expression.     *)
(* The operators < and > are applied only to normalized dates (digits and  *)
(* '-'), where they agree with this order.                                 *)
(***************************************************************************)
CharRank(c) ==
    CASE c = " " -> 0 [] c = "-" -> 1 [] c = "." -> 2 [] c = "/" -> 3
      [] c \in Digits -> 4 + DigitVal(c)
      [] c = "FULLWIDTH1" -> 4 + 1
      [] c \in {"a", "A"} -> 20 [] c \in {"b", "B"} -> 21
      [] c \in {"lstroke", "LSTROKE"} -> 22
      [] c \in {"o", "O"} -> 23 [] c \in {"p", "P"} -> 24
      [] c \in {"s", "S"} -> 25 [] c \in {"t", "T"} -> 26
      [] c \in {"w", "W"} -> 27
      [] OTHER -> 30

CharVariant(c) ==
    IF c \in {"A", "B", "LSTROKE", "O", "P", "S", "T", "W", "FULLWIDTH1"} THEN 1 ELSE 0

RECURSIVE PrimaryCompare(_, _)
PrimaryCompare(a, b) ==
    IF Len(a) = 0 /\ Len(b) = 0 THEN 0
    ELSE IF Len(a) = 0 THEN -1
    ELSE IF Len(b) = 0 THEN 1
    ELSE IF CharRank(a[1]) < CharRank(b[1]) THEN -1
    ELSE IF CharRank(a[1]) > CharRank(b[1]) THEN 1
    ELSE PrimaryCompare(Tail(a), Tail(b))

\* texts of equal primary weights (hence of equal length)
RECURSIVE VariantCompare(_, _)
VariantCompare(a, b) ==
    IF Len(a) = 0 THEN 0
    ELSE IF CharVariant(a[1]) < CharVariant(b[1]) THEN -1
    ELSE IF CharVariant(a[1]) > CharVariant(b[1]) THEN 1
    ELSE VariantCompare(Tail(a), Tail(b))

OrVariant(primary, a, b) == IF primary # 0 THEN primary ELSE VariantCompare(a, b)

TextCompare(a, b) == OrVariant(PrimaryCompare(a, b), a, b)

(***************************************************************************)
(* normalizeDate.  The last resort of the code, new Date(text), is the     *)
(* engine's free-form parser; every text of the model that reaches it is   *)
(* one the parser rejects (Invalid Date), hence null.                      *)
(***************************************************************************)
IsLeapYear(y) == (y % 4 = 0 /\ y % 100 # 0) \/ y % 400 = 0

DaysInMonth(y, m) ==
    IF m = 2 THEN (IF IsLeapYear(y) THEN 29 ELSE 28)
    ELSE IF m \in {4, 6, 9, 11} THEN 30 ELSE 31

Pad2(n) == IF n < 10 THEN <<"0">> \o <<CHOOSE c \in Digits : DigitVal(c) = n>>
           ELSE <<CHOOSE c \in Digits : DigitVal(c) = n \div 10,
                  CHOOSE c \in Digits : DigitVal(c) = n % 10>>

\* /^(\d{4})-(\d{2})-(\d{2})$/
IsoMatch(t) ==
    /\ Len(t) = 10
    /\ AllDigits(SubSeq(t, 1, 4)) /\ t[5] = "-"
    /\ AllDigits(SubSeq(t, 6, 7)) /\ t[8] = "-"
    /\ AllDigits(SubSeq(t, 9, 10))

DateSeparators == {".", "/", "-"}

\* /^(\d{1,2})[./-](\d{1,2})[./-](\d{4})$/ : the lengths <<a, b>> of the day
\* and month groups under which the text matches
PolishShapes(t) ==
    { ab \in {1, 2} \X {1, 2} :
        /\ Len(t) = ab[1] + ab[2] + 6
        /\ AllDigits(SubSeq(t, 1, ab[1]))
        /\ t[ab[1] + 1] \in DateSeparators
        /\ AllDigits(SubSeq(t, ab[1] + 2, ab[1] + 1 + ab[2]))
        /\ t[ab[1] + ab[2] + 2] \in DateSeparators
        /\ AllDigits(SubSeq(t, ab[1] + ab[2] + 3, ab[1] + ab[2] + 6)) }

PolishGroups(t, a, b) ==
    << DigitsToNat(SubSeq(t, 1, a)),
       DigitsToNat(SubSeq(t, a + 2, a + 1 + b)),
       SubSeq(t, a + b + 3, a + b + 6) >>

PolishPick(t, shapes) ==
    IF shapes = {} THEN <<>>
    ELSE PolishGroups(t, (CHOOSE x \in shapes : TRUE)[1], (CHOOSE x \in shapes : TRUE)[2])

\* the three groups <<day, month, year text>>, or <<>> when there is no match
PolishMatch(t) == PolishPick(t, PolishShapes(t))

\* lines 1951-1962: the date is kept only if it exists in the calendar
NormalizePolish(pm) ==
    IF /\ pm # <<>>
       /\ DigitsToNat(pm[3]) >= 100
       /\ pm[2] \in 1..12
       /\ pm[1] \in 1..DaysInMonth(DigitsToNat(pm[3]), pm[2])
      THEN Some(pm[3] \o <<"-">> \o Pad2(pm[2]) \o <<"-">> \o Pad2(pm[1]))
      ELSE Null

NormalizeTrimmed(trimmed) ==
    IF Len(trimmed) = 0 THEN Null
    ELSE IF IsoMatch(trimmed) THEN Some(trimmed)
    ELSE NormalizePolish(PolishMatch(trimmed))

NormalizeDate(rawValue) == NormalizeTrimmed(Trim(rawValue))

\* `this.normalizeDate(x) ?? fallback`
OrElse(o, fallback) == IF IsNull(o) THEN fallback ELSE Val(o)

\* a range whose ends are exclusive
InsideRangeExclusive(recordFrom, recordTo, rangeFrom, rangeTo) ==
    IF IsNull(recordFrom) \/ IsNull(recordTo) THEN TRUE
    ELSE IF ~IsNull(rangeFrom) /\ TextCompare(Val(recordTo), Val(rangeFrom)) <= 0
      THEN FALSE
    ELSE IF ~IsNull(rangeTo) /\ TextCompare(Val(recordFrom), Val(rangeTo)) >= 0
      THEN FALSE
    ELSE TRUE
InsideRange(recordFrom, recordTo, rangeFrom, rangeTo) ==
    IF IsNull(recordFrom) \/ IsNull(recordTo) THEN TRUE
    ELSE IF ~IsNull(rangeFrom) /\ TextCompare(Val(recordTo), Val(rangeFrom)) < 0
      THEN FALSE
    ELSE IF ~IsNull(rangeTo) /\ TextCompare(Val(recordFrom), Val(rangeTo)) > 0
      THEN FALSE
    ELSE TRUE

IsRecordInsideRange(record, rangeFrom, rangeTo) ==
    InsideRange(NormalizeDate(record.dateFrom), NormalizeDate(record.dateTo),
                rangeFrom, rangeTo)

BrakAdresu == <<"B", "A">>
BrakLokalu == <<"B", "L">>

SplitParts(trimmed, left, right) ==
    [address   |-> IF Len(left) = 0 THEN trimmed ELSE left,
     apartment |-> IF Len(right) = 0 THEN trimmed ELSE right]

SplitAt(trimmed, splitIndex) ==
    IF Len(trimmed) = 0
      THEN [address |-> BrakAdresu, apartment |-> BrakLokalu]
    ELSE IF splitIndex = 0
      THEN [address |-> trimmed, apartment |-> trimmed]
    ELSE SplitParts(trimmed, Trim(SubSeq(trimmed, 1, splitIndex - 1)),
                    Trim(SubSeq(trimmed, splitIndex + 1, Len(trimmed))))

SplitApartment(apartmentValue) ==
    SplitAt(Trim(apartmentValue), IndexOf(Trim(apartmentValue), "/"))

(***************************************************************************)
(* buildDetailedRows                                                       *)
(***************************************************************************)
RECURSIVE Flatten(_)
Flatten(ss) == IF Len(ss) = 0 THEN <<>> ELSE Head(ss) \o Flatten(Tail(ss))

InSeq(s, x) == \E i \in 1..Len(s) : s[i] = x

RECURSIVE SumSeq(_)
SumSeq(ns) == IF Len(ns) = 0 THEN 0 ELSE Head(ns) + SumSeq(Tail(ns))

\* `request.apartment?.trim() || null`
TrimmedOrNull(trimmed) == IF Len(trimmed) = 0 THEN Null ELSE Some(trimmed)

TrimOrNull(o) == IF IsNull(o) THEN Null ELSE TrimmedOrNull(Trim(Val(o)))

\* `this.normalizeDate(request.dateFrom)` of an optional field
NormalizeOptionalDate(o) == IF IsNull(o) THEN Null ELSE NormalizeDate(Val(o))

\* lines 1056-1059 and 1074-1077: the value recomputed from two parsed ones
ConsumptionComputed(startValue, endValue) ==
    IF ~IsNull(startValue) /\ ~IsNull(endValue)
      THEN Some(RoundTo2(Val(endValue) - Val(startValue), 1))
      ELSE Null

ComputedTotal(consumptionReported, rate) ==
    IF ~IsNull(consumptionReported) /\ ~IsNull(rate)
      THEN Some(RoundTo2(Val(consumptionReported) * Val(rate), SCALE))
      ELSE Null

\* lines 1060-1063 and 1078-1081: reported minus computed, rounded
Difference(reported, computed) ==
    IF ~IsNull(reported) /\ ~IsNull(computed)
      THEN Some(RoundTo2(Val(reported) - Val(computed), 1))
      ELSE Null

\* lines 1064-1068 and 1082-1083
IsValid(difference) ==
    IF IsNull(difference) THEN Null
    ELSE Some(Abs(Val(difference)) <= VALIDATION_TOLERANCE)

ConsumptionFields(startValue, endValue, consumptionReported, consumptionComputed) ==
    [startValue            |-> startValue,
     endValue              |-> endValue,
     consumptionReported   |-> consumptionReported,
     consumptionComputed   |-> consumptionComputed,
     consumptionDifference |-> Difference(consumptionReported, consumptionComputed),
     consumptionIsValid    |-> IsValid(Difference(consumptionReported, consumptionComputed))]

ConsumptionOf(startValue, endValue, consumptionReported) ==
    ConsumptionFields(startValue, endValue, consumptionReported,
                      ConsumptionComputed(startValue, endValue))

\* the consumption part of a row: lines 1052-1068
ConsumptionCheck(metricRow) ==
    ConsumptionOf(ParsePolishNumber(metricRow.startValue),
                  ParsePolishNumber(metricRow.endValue),
                  ParsePolishNumber(metricRow.consumption))

TotalFields(rate, reportedTotal, computedTotal) ==
    [rate            |-> rate,
     reportedTotal   |-> reportedTotal,
     computedTotal   |-> computedTotal,
     totalDifference |-> Difference(reportedTotal, computedTotal),
     totalIsValid    |-> IsValid(Difference(reportedTotal, computedTotal))]

TotalOf(consumptionReported, rate, reportedTotal) ==
    TotalFields(rate, reportedTotal, ComputedTotal(consumptionReported, rate))

\* the charge part of a row: lines 1070-1083
TotalCheck(metricRow) ==
    TotalOf(ParsePolishNumber(metricRow.consumption),
            ParsePolishNumber(metricRow.rate),
            ParsePolishNumber(metricRow.total))

\* lines 1094-1126: the row pushed
RowFields(record, metricRow, c, t, nf, nt, sp) ==
    [address               |-> sp.address,
     apartment             |-> sp.apartment,
     apartmentFull         |-> record.apartment,
     dateFrom              |-> nf,
     dateTo                |-> nt,
     periodKey             |-> nf \o <<"|">> \o nt,
     metric                |-> metricRow.metric,
     startValue            |-> c.startValue,
     endValue              |-> c.endValue,
     consumptionReported   |-> c.consumptionReported,
     consumptionComputed   |-> c.consumptionComputed,
     consumptionDifference |-> c.consumptionDifference,
     consumptionIsValid    |-> c.consumptionIsValid,
     rate                  |-> t.rate,
     reportedTotal         |-> t.reportedTotal,
     computedTotal         |-> t.computedTotal,
     totalDifference       |-> t.totalDifference,
     totalIsValid          |-> t.totalIsValid]

DetailedRow(record, metricRow) ==
    RowFields(record, metricRow, ConsumptionCheck(metricRow), TotalCheck(metricRow),
              OrElse(NormalizeDate(record.dateFrom), Trim(record.dateFrom)),
              OrElse(NormalizeDate(record.dateTo), Trim(record.dateTo)),
              SplitApartment(record.apartment))

\* a flag that looks at the two validity results only
DroppedUnlessInvalid(includeOnlyMismatches, row) ==
    /\ includeOnlyMismatches
    /\ ~(row.consumptionIsValid = Some(FALSE) \/ row.totalIsValid = Some(FALSE))
\* line 1085-1092: the row is dropped by the "only mismatches" flag
DroppedByMismatchFlag(includeOnlyMismatches, row) ==
    /\ includeOnlyMismatches
    /\ ~(row.consumptionIsValid = Some(FALSE) \/ row.totalIsValid = Some(FALSE))
    /\ ~(~IsNull(row.consumptionReported) /\ Val(row.consumptionReported) <= 0)

\* the rows of the selected metrics of one record, in the record's order
RECURSIVE RowsOfMetrics(_, _, _, _)
RowsOfMetrics(record, metrics, selectedMetrics, includeOnlyMismatches) ==
    IF Len(metrics) = 0 THEN <<>>
    ELSE (IF InSeq(selectedMetrics, Head(metrics).metric)
            THEN SelectSeq(<<DetailedRow(record, Head(metrics))>>,
                           LAMBDA r : ~DroppedByMismatchFlag(includeOnlyMismatches, r))
            ELSE <<>>)
         \o RowsOfMetrics(record, Tail(metrics), selectedMetrics, includeOnlyMismatches)

RowsOfRecord(record, selectedMetrics, includeOnlyMismatches) ==
    RowsOfMetrics(record, record.metrics, selectedMetrics, includeOnlyMismatches)

\* the filters of lines 1030-1038
KeepsRecord(record, filter) ==
    /\ (IsNull(filter.apartment) \/ record.apartment = Val(filter.apartment))
    /\ IsRecordInsideRange(record, filter.rangeFrom, filter.rangeTo)

RECURSIVE RowsOfRecords(_, _, _)
RowsOfRecords(records, filter, selectedMetrics) ==
    IF Len(records) = 0 THEN <<>>
    ELSE (IF KeepsRecord(Head(records), filter)
            THEN RowsOfRecord(Head(records), selectedMetrics, filter.includeOnlyMismatches)
            ELSE <<>>)
         \o RowsOfRecords(Tail(records), filter, selectedMetrics)

\* lines 1009-1012
RowFilter(request) ==
    [apartment             |-> TrimOrNull(request.apartment),
     rangeFrom             |-> NormalizeOptionalDate(request.dateFrom),
     rangeTo               |-> NormalizeOptionalDate(request.dateTo),
     includeOnlyMismatches |-> OrElse(request.includeOnlyMismatches, FALSE)]

BuildDetailedRows(request, parsedWorkbook, selectedMetrics) ==
    RowsOfRecords(parsedWorkbook.records, RowFilter(request), selectedMetrics)

\* resolveSelectedMetrics
TrimAll(texts) == [i \in 1..Len(texts) |-> Trim(texts[i])]

SelectedOrAll(selected, workbookHeaders) ==
    IF Len(selected) > 0 THEN selected ELSE workbookHeaders

ResolveSelectedMetrics(requestedMetrics, workbookHeaders) ==
    SelectedOrAll(SelectSeq(TrimAll(OrElse(requestedMetrics, <<>>)), LAMBDA m : Len(m) > 0),
                  workbookHeaders)

(***************************************************************************)
(* Worksheets.  A sheet is [readable, rows]; rows and columns are 0-based  *)
(* in the code, so cell (r, c) is rows[r + 1][c + 1].  A sheet without     *)
(* rows has no "!ref".                                                     *)
(***************************************************************************)
LastRow(sheet) == Len(sheet.rows) - 1

Max(a, b) == IF a > b THEN a ELSE b

RECURSIVE MaxLen(_)
MaxLen(rows) == IF Len(rows) = 0 THEN 0 ELSE Max(Len(Head(rows)), MaxLen(Tail(rows)))

LastCol(sheet) == MaxLen(sheet.rows) - 1

\* getWorksheetCellText: the trimmed display text, "" for a missing cell
GetWorksheetCellText(sheet, row, col) ==
    IF row + 1 > Len(sheet.rows) THEN <<>>
    ELSE IF col + 1 > Len(sheet.rows[row + 1]) THEN <<>>
    ELSE Trim(sheet.rows[row + 1][col + 1])

\* lines 2131-2137
HeaderColumns(sheet) ==
    SelectSeq([i \in 1..(LastCol(sheet) - 1) |->
                 [name |-> GetWorksheetCellText(sheet, 0, i + 1), col |-> i + 1]],
              LAMBDA e : Len(e.name) > 0)

\* lines 2158-2173: the record of the block that starts at `row`
BlockRecord(sheet, headerColumns, row) ==
    [apartment |-> GetWorksheetCellText(sheet, row, 0),
     dateFrom  |-> GetWorksheetCellText(sheet, row, 1),
     dateTo    |-> GetWorksheetCellText(sheet, row + 1, 1),
     metrics   |-> [i \in 1..Len(headerColumns) |->
         [metric      |-> headerColumns[i].name,
          startValue  |-> GetWorksheetCellText(sheet, row, headerColumns[i].col),
          endValue    |-> GetWorksheetCellText(sheet, row + 1, headerColumns[i].col),
          consumption |-> GetWorksheetCellText(sheet, row + 2, headerColumns[i].col),
          rate        |-> GetWorksheetCellText(sheet, row + 3, headerColumns[i].col),
          total       |-> GetWorksheetCellText(sheet, row + 4, headerColumns[i].col)]]]

\* line 2174: `row += 5`
NextRowAfterBlockSkipsOne(row) == row + 1
NextRowAfterBlock(row) == row + 5

\* what the loop of lines 2146-2175 does at `row`
RowKind(sheet, row) ==
    IF ~(row <= LastRow(sheet)) THEN "end"
    ELSE IF \/ Len(GetWorksheetCellText(sheet, row, 0)) = 0
            \/ Len(GetWorksheetCellText(sheet, row, 1)) = 0 THEN "skip"
    ELSE IF row + 4 > LastRow(sheet) THEN "break"
    ELSE "emit"

StepOfKind(kind, sheet, headerColumns, row, records) ==
    IF kind = "skip" THEN [row |-> row + 1, records |-> records, done |-> FALSE]
    ELSE IF kind = "emit"
      THEN [row     |-> NextRowAfterBlock(row),
            records |-> Append(records, BlockRecord(sheet, headerColumns, row)),
            done    |-> FALSE]
    ELSE [row |-> row, records |-> records, done |-> TRUE]

\* one iteration of the loop
ParseStep(sheet, headerColumns, row, records) ==
    StepOfKind(RowKind(sheet, row), sheet, headerColumns, row, records)

RECURSIVE ParseLoop(_, _, _, _)
RECURSIVE ParseLoopAfter(_, _, _)
ParseLoopAfter(sheet, headerColumns, n) ==
    IF n.done THEN n.records ELSE ParseLoop(sheet, headerColumns, n.row, n.records)

ParseLoop(sheet, headerColumns, row, records) ==
    ParseLoopAfter(sheet, headerColumns, ParseStep(sheet, headerColumns, row, records))

\* the checks before the loop: the message thrown, or null
ParseRejects(sheet) ==
    IF Len(sheet.rows) = 0 THEN Some("Worksheet is empty")
    ELSE IF Len(HeaderColumns(sheet)) = 0 THEN Some("Header row is missing metric columns")
    ELSE Null

ParsedWorkbook(headers, records) ==
    [headers |-> headers, recordCount |-> Len(records), records |-> records]

HeaderNames(headerColumns) == [i \in 1..Len(headerColumns) |-> headerColumns[i].name]

ParseChecked(sheet, rejects, headerColumns) ==
    IF ~IsNull(rejects) THEN [ok |-> FALSE, message |-> Val(rejects)]
    ELSE [ok |-> TRUE,
          workbook |-> ParsedWorkbook(HeaderNames(headerColumns),
                                      ParseLoop(sheet, headerColumns, 1, <<>>))]

ParseWorksheetBlocks(sheet) == ParseChecked(sheet, ParseRejects(sheet), HeaderColumns(sheet))

\* lines 2117-2120: the message every failure is rethrown with
UnsupportedShape(reason) ==
    "Unsupported Excel shape. Expected worksheet with apartment settlement blocks. ("
        \o reason \o ")"

RethrowAsUnsupported(r) ==
    IF r.ok THEN r ELSE [ok |-> FALSE, message |-> UnsupportedShape(r.message)]

\* parseWorkbookFromBuffer; a buffer that is not readable holds no worksheet
ParseWorkbookFromBuffer(buffer) ==
    IF ~buffer.readable
      THEN [ok |-> FALSE, message |-> UnsupportedShape("Workbook has no worksheets")]
    ELSE RethrowAsUnsupported(ParseWorksheetBlocks(buffer))

(***************************************************************************)
(* mergeParsedWorkbooks                                                    *)
(***************************************************************************)
\* Array.from(new Set(xs)): the first occurrence of each element, in order
AddIfNew(front, x) == IF InSeq(front, x) THEN front ELSE Append(front, x)

RECURSIVE Dedupe(_)
Dedupe(xs) ==
    IF Len(xs) = 0 THEN <<>> ELSE AddIfNew(Dedupe(SubSeq(xs, 1, Len(xs) - 1)), xs[Len(xs)])

\* the headers of all files one after the other, repeats kept
UnionHeadersKeepsDuplicates(workbooks) ==
    Flatten([i \in 1..Len(workbooks) |-> workbooks[i].headers])
\* line 1850-1852
UnionHeaders(workbooks) ==
    Dedupe(Flatten([i \in 1..Len(workbooks) |-> workbooks[i].headers]))

EmptyMetric(header) ==
    [metric |-> header, startValue |-> <<>>, endValue |-> <<>>,
     consumption |-> <<>>, rate |-> <<>>, total |-> <<>>]

\* metricByName.get(header): a Map built from entries keeps the last entry of a name
LastOf(record, header, hits) ==
    IF hits = {} THEN EmptyMetric(header)
    ELSE record.metrics[CHOOSE i \in hits : \A j \in hits : j <= i]

AlignedMetric(record, header) ==
    LastOf(record, header, { i \in 1..Len(record.metrics) : record.metrics[i].metric = header })

AlignRecord(record, headers) ==
    [apartment |-> record.apartment,
     dateFrom  |-> record.dateFrom,
     dateTo    |-> record.dateTo,
     metrics   |-> [i \in 1..Len(headers) |-> AlignedMetric(record, headers[i])]]

\* String(workbookIdx) for the indexes of the model
IndexText(n) == IF n < 10 THEN <<CHOOSE c \in Digits : DigitVal(c) = n>> ELSE Pad2(n)

\* line 1874: `${workbookIdx}|${record.apartment}|${record.dateFrom}|${record.dateTo}`
RecordKeyWithoutIndex(workbookIdx, record) ==
    record.apartment \o <<"|">> \o record.dateFrom \o <<"|">> \o record.dateTo
RecordKey(workbookIdx, record) ==
    IndexText(workbookIdx) \o <<"|">> \o record.apartment \o <<"|">>
        \o record.dateFrom \o <<"|">> \o record.dateTo

\* Map.prototype.set on a map kept as a sequence of [key, value] in insertion
\* order: an existing key keeps its place and takes the new value.
MapSet(map, key, value) ==
    IF \E i \in 1..Len(map) : map[i].key = key
      THEN [i \in 1..Len(map) |->
              IF map[i].key = key THEN [key |-> key, value |-> value] ELSE map[i]]
      ELSE Append(map, [key |-> key, value |-> value])

\* the entries the records of one workbook add to recordMap
RECURSIVE AddRecords(_, _, _, _)
AddRecords(map, workbookIdx, records, headers) ==
    IF Len(records) = 0 THEN map
    ELSE AddRecords(
           MapSet(map, RecordKey(workbookIdx, Head(records)), AlignRecord(Head(records), headers)),
           workbookIdx, Tail(records), headers)

\* lines 1854-1882; workbookIdx counts from 0
RECURSIVE BuildRecordMap(_, _, _, _)
BuildRecordMap(map, workbooks, workbookIdx, headers) ==
    IF workbookIdx >= Len(workbooks) THEN map
    ELSE BuildRecordMap(
           AddRecords(map, workbookIdx, workbooks[workbookIdx + 1].records, headers),
           workbooks, workbookIdx + 1, headers)

FirstDifference(apartmentCompare, dateCompare, dateToCompare) ==
    IF apartmentCompare # 0 THEN apartmentCompare
    ELSE IF dateCompare # 0 THEN dateCompare
    ELSE dateToCompare

\* the comparator of lines 1884-1900
CompareRecords(left, right) ==
    FirstDifference(TextCompare(left.apartment, right.apartment),
                    TextCompare(OrElse(NormalizeDate(left.dateFrom), <<>>),
                                OrElse(NormalizeDate(right.dateFrom), <<>>)),
                    TextCompare(OrElse(NormalizeDate(left.dateTo), <<>>),
                                OrElse(NormalizeDate(right.dateTo), <<>>)))

\* Array.prototype.sort is stable: an element goes after the elements that do
\* not sort after it, in the order the elements come
InsertAt(sorted, x, k) == SubSeq(sorted, 1, k) \o <<x>> \o SubSeq(sorted, k + 1, Len(sorted))

InsertRecord(sorted, record) ==
    InsertAt(sorted, record,
             Cardinality({ i \in 1..Len(sorted) : CompareRecords(sorted[i], record) <= 0 }))

\* lines 1883-1900: the stable sort of the records, one record at a time
RECURSIVE SortRecords(_)
SortRecords(records) ==
    IF Len(records) = 0 THEN <<>>
    ELSE InsertRecord(SortRecords(SubSeq(records, 1, Len(records) - 1)), records[Len(records)])

MapValues(map) == [i \in 1..Len(map) |-> map[i].value]

MergeUnder(workbooks, headers) ==
    ParsedWorkbook(headers, SortRecords(MapValues(BuildRecordMap(<<>>, workbooks, 0, headers))))

\* precondition: workbooks is not empty (the code throws otherwise)
MergeParsedWorkbooks(workbooks) == MergeUnder(workbooks, UnionHeaders(workbooks))

(***************************************************************************)
(* compareApartments, extractAddress, buildAnalysisDraft                   *)
(***************************************************************************)
RECURSIVE LeadingDigits(_)
LeadingDigits(s) ==
    IF Len(s) > 0 /\ s[1] \in Digits THEN 1 + LeadingDigits(Tail(s)) ELSE 0

Sign(n) == IF n < 0 THEN -1 ELSE IF n > 0 THEN 1 ELSE 0

CompareNumbered(a, b, na, nb, numA, numB) ==
    IF numA # numB THEN Sign(numA - numB)
    ELSE TextCompare(SubSeq(a, na + 1, Len(a)), SubSeq(b, nb + 1, Len(b)))

CompareSplit(a, b, na, nb) ==
    IF na > 0 /\ nb > 0
      THEN CompareNumbered(a, b, na, nb, DigitsToNat(SubSeq(a, 1, na)),
                           DigitsToNat(SubSeq(b, 1, nb)))
      ELSE TextCompare(a, b)

\* /^(\d+)(.*)/ then parseInt(match[1], 10); the sign of the result
CompareApartments(a, b) == CompareSplit(a, b, LeadingDigits(a), LeadingDigits(b))

AddressPart(trimmed, part) ==
    IF Len(trimmed) = 0 THEN <<>>
    ELSE IF Len(part) > 0 THEN part ELSE trimmed

AddressAt(trimmed, slash) ==
    AddressPart(trimmed, Trim(IF slash = 0 THEN trimmed ELSE SubSeq(trimmed, 1, slash - 1)))

\* the address, or <<>> where the code returns null
ExtractAddress(apartmentValue) ==
    AddressAt(Trim(apartmentValue), IndexOf(Trim(apartmentValue), "/"))

InsertText(sorted, text) ==
    InsertAt(sorted, text,
             Cardinality({ i \in 1..Len(sorted) : TextCompare(sorted[i], text) <= 0 }))

\* texts.sort((left, right) => left.localeCompare(right))
RECURSIVE SortTexts(_)
SortTexts(texts) ==
    IF Len(texts) = 0 THEN <<>>
    ELSE InsertText(SortTexts(SubSeq(texts, 1, Len(texts) - 1)), texts[Len(texts)])

InsertApartment(sorted, apartment) ==
    InsertAt(sorted, apartment,
             Cardinality({ i \in 1..Len(sorted) : CompareApartments(sorted[i], apartment) <= 0 }))

\* apartments.sort((left, right) => this.compareApartments(left, right))
RECURSIVE SortApartments(_)
SortApartments(apartments) ==
    IF Len(apartments) = 0 THEN <<>>
    ELSE InsertApartment(SortApartments(SubSeq(apartments, 1, Len(apartments) - 1)),
                         apartments[Len(apartments)])

NonEmpty(texts) == SelectSeq(texts, LAMBDA v : Len(v) > 0)

\* lines 2055-2061
DraftApartments(records) ==
    SortApartments(Dedupe(NonEmpty([i \in 1..Len(records) |-> records[i].apartment])))

\* lines 2062-2069
DraftAddresses(apartments) ==
    SortTexts(Dedupe(NonEmpty([i \in 1..Len(apartments) |-> ExtractAddress(apartments[i])])))

\* lines 2071-2083
DraftDates(records) ==
    SortTexts(Flatten([i \in 1..Len(records) |->
                 NormalizeDate(records[i].dateFrom) \o NormalizeDate(records[i].dateTo)]))

PeriodRange(allDates) ==
    [min |-> IF Len(allDates) = 0 THEN Null ELSE Some(allDates[1]),
     max |-> IF Len(allDates) = 0 THEN Null ELSE Some(allDates[Len(allDates)])]

\* a draft that counts the source files as records
DraftCountingFiles(uploadId, parsedWorkbook, sourceFiles) ==
    [uploadId         |-> uploadId,
     apartments       |-> DraftApartments(parsedWorkbook.records),
     addresses        |-> DraftAddresses(DraftApartments(parsedWorkbook.records)),
     availableMetrics |-> parsedWorkbook.headers,
     periodRange      |-> PeriodRange(DraftDates(parsedWorkbook.records)),
     recordsCount     |-> Len(sourceFiles),
     sourceFiles      |-> sourceFiles,
     filesCount       |-> Len(sourceFiles)]
BuildAnalysisDraft(uploadId, parsedWorkbook, sourceFiles) ==
    [uploadId         |-> uploadId,
     apartments       |-> DraftApartments(parsedWorkbook.records),
     addresses        |-> DraftAddresses(DraftApartments(parsedWorkbook.records)),
     availableMetrics |-> parsedWorkbook.headers,
     periodRange      |-> PeriodRange(DraftDates(parsedWorkbook.records)),
     recordsCount     |-> Len(parsedWorkbook.records),
     sourceFiles      |-> sourceFiles,
     filesCount       |-> Len(sourceFiles)]

(***************************************************************************)
(* Array.prototype.sort with a comparator, which is stable: cmp[i, j] is   *)
(* the comparator's result on the i-th and j-th element, and an element    *)
(* goes after the elements before it that do not sort after it.            *)
(***************************************************************************)
InsertIndex(sorted, k, cmp) ==
    InsertAt(sorted, k, Cardinality({ i \in 1..Len(sorted) : cmp[sorted[i], k] <= 0 }))

RECURSIVE SortedIndices(_, _)
SortedIndices(n, cmp) ==
    IF n = 0 THEN <<>> ELSE InsertIndex(SortedIndices(n - 1, cmp), n, cmp)

Permute(items, order) == [k \in 1..Len(order) |-> items[order[k]]]

Sorted(items, cmp) == Permute(items, SortedIndices(Len(items), cmp))

(***************************************************************************)
(* Timestamps.  Every timestamp of the code is midnight UTC of a day, so   *)
(* the model counts timestamps in days since 1970-01-01 and DAY_MS is one  *)
(* unit.  Date.parse of an ISO-shaped text that names no calendar day is   *)
(* left to the engine; the texts of the model name calendar days or do not *)
(* normalize at all.                                                       *)
(***************************************************************************)
DAY_MS == 1

LeapDaysBefore(y) == (y - 1) \div 4 - (y - 1) \div 100 + (y - 1) \div 400

DaysBeforeYear(y) == 365 * (y - 1970) + LeapDaysBefore(y) - LeapDaysBefore(1970)

RECURSIVE DaysBeforeMonth(_, _)
DaysBeforeMonth(y, m) ==
    IF m <= 1 THEN 0 ELSE DaysBeforeMonth(y, m - 1) + DaysInMonth(y, m - 1)

\* Date.UTC(year, month - 1, day)
DateUTC(y, m, d) == DaysBeforeYear(y) + DaysBeforeMonth(y, m) + (d - 1)

\* normalized.slice(0, 4), normalized.slice(5, 7) and the day, as numbers
IsoYear(normalized) == DigitsToNat(SubSeq(normalized, 1, 4))
IsoMonth(normalized) == DigitsToNat(SubSeq(normalized, 6, 7))
IsoDay(normalized) == DigitsToNat(SubSeq(normalized, 9, 10))

\* Date.parse(`${normalized}T00:00:00Z`), null when not finite
ParseUtcMidnight(y, m, d) ==
    IF m \in 1..12 /\ d \in 1..DaysInMonth(y, m) THEN Some(DateUTC(y, m, d)) ELSE Null

TimestampOf(n) ==
    IF IsNull(n) THEN Null
    ELSE ParseUtcMidnight(IsoYear(Val(n)), IsoMonth(Val(n)), IsoDay(Val(n)))

ToUtcTimestamp(rawDate) == TimestampOf(NormalizeDate(rawDate))

YearOf(n) == IF IsNull(n) THEN Null ELSE Some(IsoYear(Val(n)))

GetYearFromIsoDate(rawDate) == YearOf(NormalizeDate(rawDate))

(***************************************************************************)
(* isFullYearCoverage                                                      *)
(***************************************************************************)
Min(a, b) == IF a < b THEN a ELSE b

\* a clipping that lets every interval reach the end of the year
ClipStartOnly(intervals, yearStart, yearEnd) ==
    [i \in 1..Len(intervals) |->
        [start |-> Max(intervals[i].start, yearStart), end |-> yearEnd]]
\* lines 2244-2249: clipped to the year, the empty ones dropped
ClipToYear(intervals, yearStart, yearEnd) ==
    SelectSeq([i \in 1..Len(intervals) |->
                 [start |-> Max(intervals[i].start, yearStart),
                  end   |-> Min(intervals[i].end, yearEnd)]],
              LAMBDA interval : interval.start <= interval.end)

ByStart(intervals) ==
    Sorted(intervals, [i \in 1..Len(intervals), j \in 1..Len(intervals) |->
                         intervals[i].start - intervals[j].start])

\* lines 2244-2250
NormalizedIntervals(intervals, yearStart, yearEnd) ==
    ByStart(ClipToYear(intervals, yearStart, yearEnd))

\* lines 2264-2268: one iteration of the merge loop
MergeInterval(merged, current) ==
    IF current.start <= merged[Len(merged)].end + DAY_MS
      THEN [merged EXCEPT ![Len(merged)].end = Max(@, current.end)]
      ELSE Append(merged, current)

RECURSIVE MergeIntervals(_, _)
MergeIntervals(normalizedIntervals, n) ==
    IF n = 1 THEN <<normalizedIntervals[1]>>
    ELSE MergeInterval(MergeIntervals(normalizedIntervals, n - 1), normalizedIntervals[n])

CoversYear(merged, yearStart, yearEnd) ==
    Len(merged) = 1 /\ merged[1].start <= yearStart /\ merged[1].end >= yearEnd

CoverageOf(normalizedIntervals, yearStart, yearEnd) ==
    IF Len(normalizedIntervals) = 0 THEN FALSE
    ELSE CoversYear(MergeIntervals(normalizedIntervals, Len(normalizedIntervals)),
                    yearStart, yearEnd)

CoverageWithin(intervals, yearStart, yearEnd) ==
    IF Len(intervals) = 0 THEN FALSE
    ELSE CoverageOf(NormalizedIntervals(intervals, yearStart, yearEnd), yearStart, yearEnd)

IsFullYearCoverage(intervals, year) ==
    CoverageWithin(intervals, DateUTC(year, 1, 1), DateUTC(year, 12, 31))

(***************************************************************************)
(* buildYearlyExportRows                                                   *)
(***************************************************************************)
\* `${row.address}|${row.apartment}|${row.metric}`
GroupKey(row) == row.address \o <<"|">> \o row.apartment \o <<"|">> \o row.metric

\* lines 1334-1342
YearlySkips(start, end, yearFrom, yearTo) ==
    IsNull(start) \/ IsNull(end) \/ IsNull(yearFrom) \/ IsNull(yearTo) \/ yearFrom # yearTo

\* groupMap.get(key), the key being the group key and the year: the position
\* of the entry, 0 when there is none
YearlyGroupAt(groups, key, year) ==
    IF \E i \in 1..Len(groups) : groups[i].key = key /\ groups[i].year = year
      THEN CHOOSE i \in 1..Len(groups) : groups[i].key = key /\ groups[i].year = year
      ELSE 0

\* lines 1345-1359
AddToYearlyGroup(groups, k, row, year, interval) ==
    IF k = 0
      THEN Append(groups, [key |-> GroupKey(row), address |-> row.address,
                           apartment |-> row.apartment, metric |-> row.metric,
                           year |-> year, rows |-> <<row>>, intervals |-> <<interval>>])
      ELSE [groups EXCEPT ![k].rows = Append(@, row),
                          ![k].intervals = Append(@, interval)]

YearlyStep(groups, row, start, end, yearFrom, yearTo) ==
    IF YearlySkips(start, end, yearFrom, yearTo) THEN groups
    ELSE AddToYearlyGroup(groups, YearlyGroupAt(groups, GroupKey(row), Val(yearFrom)), row,
                          Val(yearFrom), [start |-> Val(start), end |-> Val(end)])

\* lines 1328-1360: the groups after the first n rows, in insertion order
RECURSIVE YearlyGroups(_, _)
YearlyGroups(detailedRows, n) ==
    IF n = 0 THEN <<>>
    ELSE YearlyStep(YearlyGroups(detailedRows, n - 1), detailedRows[n],
                    ToUtcTimestamp(detailedRows[n].dateFrom),
                    ToUtcTimestamp(detailedRows[n].dateTo),
                    GetYearFromIsoDate(detailedRows[n].dateFrom),
                    GetYearFromIsoDate(detailedRows[n].dateTo))

FirstOf4(a, b, c, d) ==
    IF a # 0 THEN a ELSE IF b # 0 THEN b ELSE IF c # 0 THEN c ELSE d

\* lines 1363-1380
CompareYearlyGroups(left, right) ==
    FirstOf4(TextCompare(left.address, right.address),
             CompareApartments(left.apartment, right.apartment),
             TextCompare(left.metric, right.metric),
             left.year - right.year)

SortYearlyGroups(groups) ==
    Sorted(groups, [i \in 1..Len(groups), j \in 1..Len(groups) |->
                      CompareYearlyGroups(groups[i], groups[j])])

\* `sum + (row.field ?? 0)` over the rows
OrZero(o) == IF IsNull(o) THEN 0 ELSE Val(o)

\* lines 1403-1410
HasIssues(rows, difference) ==
    \/ \E i \in 1..Len(rows) :
          \/ rows[i].consumptionIsValid = Some(FALSE)
          \/ rows[i].totalIsValid = Some(FALSE)
          \/ (~IsNull(rows[i].consumptionReported) /\ Val(rows[i].consumptionReported) <= 0)
    \/ Abs(difference) > VALIDATION_TOLERANCE

YearlyRowOf(group, consumptionReported, consumptionComputed, totalReported, totalComputed) ==
    [address |-> group.address, apartment |-> group.apartment, metric |-> group.metric,
     year |-> group.year,
     totalConsumptionReported |-> consumptionReported,
     totalConsumptionComputed |-> consumptionComputed,
     totalReported |-> totalReported,
     totalComputed |-> totalComputed,
     difference |-> RoundTo2(totalReported - totalComputed, 1),
     periodCount |-> Len(group.rows),
     yearlyStatus |-> IF HasIssues(group.rows, RoundTo2(totalReported - totalComputed, 1))
                        THEN "Wymaga sprawdzenia" ELSE "OK"]

\* lines 1382-1441: the values of the row of one group
YearlyRow(group) ==
    YearlyRowOf(group,
        RoundTo2(SumSeq([i \in 1..Len(group.rows) |-> OrZero(group.rows[i].consumptionReported)]), 1),
        RoundTo2(SumSeq([i \in 1..Len(group.rows) |-> OrZero(group.rows[i].consumptionComputed)]), 1),
        RoundTo2(SumSeq([i \in 1..Len(group.rows) |-> OrZero(group.rows[i].reportedTotal)]), 1),
        RoundTo2(SumSeq([i \in 1..Len(group.rows) |-> OrZero(group.rows[i].computedTotal)]), 1))

YearlyRowsOf(covered) == [i \in 1..Len(covered) |-> YearlyRow(covered[i])]

BuildYearlyExportRows(detailedRows) ==
    YearlyRowsOf(SelectSeq(SortYearlyGroups(YearlyGroups(detailedRows, Len(detailedRows))),
                           LAMBDA group : IsFullYearCoverage(group.intervals, group.year)))

(***************************************************************************)
(* buildExportPayload: periods, pivot rows and their cells.  A column key  *)
(* and a cell style are strings; the labels are written without their      *)
(* diacritics.  A Map is the sequence of its entries [key, value] in       *)
(* insertion order.                                                        *)
(***************************************************************************)
DEFAULT_EXPORT_COLUMNS ==
    <<"previousReading", "currentReading", "consumptionReported", "consumptionComputed",
      "consumptionStatus", "rate", "reportedTotal", "computedTotal", "totalStatus">>

EXPORT_COLUMN_LABELS ==
    [previousReading |-> "Odczyt poprzedni", currentReading |-> "Odczyt koncowy",
     consumptionReported |-> "Zuzycie", consumptionComputed |-> "Zuzycie wyliczone",
     consumptionStatus |-> "Status zuzycia", rate |-> "Stawka",
     reportedTotal |-> "Suma raportowana", computedTotal |-> "Suma wyliczona",
     totalStatus |-> "Status sumy"]

IsExportColumnKey(value) == value \in DOMAIN EXPORT_COLUMN_LABELS

DefaultIfEmpty(uniquePickedColumns) ==
    IF Len(uniquePickedColumns) > 0 THEN uniquePickedColumns ELSE DEFAULT_EXPORT_COLUMNS

\* the requested names of the model carry no surrounding blanks
ResolveExportColumns(requestedColumns) ==
    DefaultIfEmpty(Dedupe(SelectSeq(OrElse(requestedColumns, <<>>), IsExportColumnKey)))

MapHas(map, key) == \E i \in 1..Len(map) : map[i].key = key

\* the position of the entry of the key, null when there is none
MapAt(map, key) ==
    IF MapHas(map, key) THEN Some(CHOOSE i \in 1..Len(map) : map[i].key = key) ELSE Null

MapValue(map, at) == IF IsNull(at) THEN Null ELSE Some(map[Val(at)].value)

\* map.get(key): null where the code has undefined
MapGet(map, key) == MapValue(map, MapAt(map, key))

\* 0-based Array.prototype.indexOf, -1 when absent
ArrayIndexOf(array, x) ==
    IF InSeq(array, x) THEN (CHOOSE i \in 1..Len(array) :
                                array[i] = x /\ \A j \in 1..(i - 1) : array[j] # x) - 1
    ELSE -1

PeriodLabel(from, to) == from \o <<" ", "-", " ">> \o to

\* lines 1148-1157
AddPeriod(periodMap, row) ==
    IF MapHas(periodMap, row.periodKey) THEN periodMap
    ELSE Append(periodMap, [key |-> row.periodKey, from |-> row.dateFrom, to |-> row.dateTo,
                            label |-> PeriodLabel(row.dateFrom, row.dateTo)])

RECURSIVE PeriodMap(_, _)
PeriodMap(detailedRows, n) ==
    IF n = 0 THEN <<>> ELSE AddPeriod(PeriodMap(detailedRows, n - 1), detailedRows[n])

\* lines 1159-1166
ComparePeriods(left, right) ==
    FirstDifference(TextCompare(left.from, right.from), TextCompare(left.to, right.to), 0)

SortPeriods(periods) ==
    Sorted(periods, [i \in 1..Len(periods), j \in 1..Len(periods) |->
                       ComparePeriods(periods[i], periods[j])])

\* the periods in the order of the map, unsorted
PeriodsUnsorted(detailedRows) == PeriodMap(detailedRows, Len(detailedRows))
\* lines 1144-1166
Periods(detailedRows) == SortPeriods(PeriodMap(detailedRows, Len(detailedRows)))

\* lines 1190-1203
AddToPivotGroup(groupedRows, at, row) ==
    IF IsNull(at)
      THEN Append(groupedRows,
                  [key |-> GroupKey(row), address |-> row.address,
                   apartment |-> row.apartment, metric |-> row.metric,
                   byPeriod |-> <<[key |-> row.periodKey, value |-> row]>>])
      ELSE [groupedRows EXCEPT ![Val(at)].byPeriod = MapSet(@, row.periodKey, row)]

PivotStep(groupedRows, row) ==
    AddToPivotGroup(groupedRows, MapAt(groupedRows, GroupKey(row)), row)

RECURSIVE GroupedRows(_, _)
GroupedRows(detailedRows, n) ==
    IF n = 0 THEN <<>> ELSE PivotStep(GroupedRows(detailedRows, n - 1), detailedRows[n])

\* lines 1206-1218
ComparePivotGroups(left, right) ==
    FirstDifference(TextCompare(left.address, right.address),
                    CompareApartments(left.apartment, right.apartment),
                    TextCompare(left.metric, right.metric))

SortPivotGroups(groups) ==
    Sorted(groups, [i \in 1..Len(groups), j \in 1..Len(groups) |->
                      ComparePivotGroups(groups[i], groups[j])])

ResolveConsumptionValueStyle(value) ==
    IF IsNull(value) THEN Null
    ELSE IF Val(value) < 0 THEN Some("negative")
    ELSE IF Val(value) = 0 THEN Some("zero")
    ELSE Null

Cell(value, style) == [value |-> value, style |-> style]

\* a status cell that looks at the validity only
StatusCellByValidity(row, consumptionStyle) ==
    IF row.consumptionIsValid = Some(TRUE) THEN Cell(Some("OK"), Some("ok"))
    ELSE IF row.consumptionIsValid = Some(FALSE) THEN Cell(Some("Blad"), Some("error"))
    ELSE Cell(Some("N/D"), Some("warning"))
\* lines 1712-1728, after the style of the reported consumption
StatusCellOf(row, consumptionStyle) ==
    IF consumptionStyle = Some("negative") THEN Cell(Some("Ujemne"), Some("negative"))
    ELSE IF consumptionStyle = Some("zero") THEN Cell(Some("Zero"), Some("zero"))
    ELSE IF row.consumptionIsValid = Some(TRUE) THEN Cell(Some("OK"), Some("ok"))
    ELSE IF row.consumptionIsValid = Some(FALSE) THEN Cell(Some("Blad"), Some("error"))
    ELSE Cell(Some("N/D"), Some("warning"))

ResolveConsumptionStatusCell(row) ==
    StatusCellOf(row, ResolveConsumptionValueStyle(row.consumptionReported))

ResolveTotalStatusCell(row) ==
    IF row.totalIsValid = Some(TRUE) THEN Cell(Some("OK"), Some("ok"))
    ELSE IF row.totalIsValid = Some(FALSE) THEN Cell(Some("Blad"), Some("error"))
    ELSE Cell(Some("N/D"), Some("warning"))

CellOfRow(row, columnKey) ==
    CASE columnKey = "previousReading" -> Cell(row.startValue, Null)
      [] columnKey = "currentReading" -> Cell(row.endValue, Null)
      [] columnKey = "consumptionReported" ->
           Cell(row.consumptionReported, ResolveConsumptionValueStyle(row.consumptionReported))
      [] columnKey = "consumptionComputed" ->
           Cell(row.consumptionComputed, ResolveConsumptionValueStyle(row.consumptionComputed))
      [] columnKey = "consumptionStatus" -> ResolveConsumptionStatusCell(row)
      [] columnKey = "rate" -> Cell(row.rate, Null)
      [] columnKey = "reportedTotal" -> Cell(row.reportedTotal, Null)
      [] columnKey = "computedTotal" -> Cell(row.computedTotal, Null)
      [] columnKey = "totalStatus" -> ResolveTotalStatusCell(row)
      [] OTHER -> Cell(Null, Null)

\* `row` is the row of the period, null where the code has undefined
ResolveDetailedExportCell(row, columnKey) ==
    IF IsNull(row) THEN Cell(Null, Null) ELSE CellOfRow(Val(row), columnKey)

PeriodCells(rowOfPeriod, exportColumns) ==
    [c \in 1..Len(exportColumns) |-> ResolveDetailedExportCell(rowOfPeriod, exportColumns[c])]

\* lines 1223-1230
GroupCells(group, periods, exportColumns) ==
    Flatten([p \in 1..Len(periods) |->
               PeriodCells(MapGet(group.byPeriod, periods[p].key), exportColumns)])

ExportTableRow(group, periods, exportColumns) ==
    [address |-> group.address, apartment |-> group.apartment, metric |-> group.metric,
     cells |-> GroupCells(group, periods, exportColumns)]

ExportTableRows(groups, periods, exportColumns) ==
    [g \in 1..Len(groups) |-> ExportTableRow(groups[g], periods, exportColumns)]

\* lines 1179-1231
PivotRows(detailedRows, periods, exportColumns) ==
    ExportTableRows(SortPivotGroups(GroupedRows(detailedRows, Len(detailedRows))),
                    periods, exportColumns)

(***************************************************************************)
(* buildDominantRateMap and the rate outliers                              *)
(***************************************************************************)
\* `${row.metric}|${row.periodKey}`
RateKey(metric, periodKey) == metric \o <<"|">> \o periodKey

\* lines 1747-1759
AddRate(ratesByKey, row) ==
    IF IsNull(row.rate) THEN ratesByKey
    ELSE MapSet(ratesByKey, RateKey(row.metric, row.periodKey),
                Append(OrElse(MapGet(ratesByKey, RateKey(row.metric, row.periodKey)), <<>>),
                       Val(row.rate)))

RECURSIVE RatesByKey(_, _)
RatesByKey(detailedRows, n) ==
    IF n = 0 THEN <<>> ELSE AddRate(RatesByKey(detailedRows, n - 1), detailedRows[n])

\* lines 1764-1766
CountRate(frequency, rate) == MapSet(frequency, rate, OrElse(MapGet(frequency, rate), 0) + 1)

RECURSIVE Frequency(_, _)
Frequency(rates, n) ==
    IF n = 0 THEN <<>> ELSE CountRate(Frequency(rates, n - 1), rates[n])

\* lines 1770-1775: one iteration over the frequency map
PickDominant(best, entry) ==
    IF entry.value > best.maxCount
      THEN [dominantRate |-> entry.key, maxCount |-> entry.value]
      ELSE best

RECURSIVE DominantAmong(_, _, _)
DominantAmong(frequency, n, rates) ==
    IF n = 0 THEN [dominantRate |-> rates[1], maxCount |-> 0]
    ELSE PickDominant(DominantAmong(frequency, n - 1, rates), frequency[n])

MostFrequent(frequency, rates) == DominantAmong(frequency, Len(frequency), rates).dominantRate

\* the first rate of the group, however often it occurs
FirstRate(rates) == rates[1]
\* lines 1762-1777
DominantRate(rates) == MostFrequent(Frequency(rates, Len(rates)), rates)

DominantRates(ratesByKey) ==
    [i \in 1..Len(ratesByKey) |->
        [key |-> ratesByKey[i].key, value |-> DominantRate(ratesByKey[i].value)]]

BuildDominantRateMap(detailedRows) == DominantRates(RatesByKey(detailedRows, Len(detailedRows)))

\* lines 1259-1270: the rate cell of one row and period is an outlier
IsOutlier(rateCell, dominant) ==
    /\ ~IsNull(rateCell.value)
    /\ ~IsNull(dominant)
    /\ Abs(Val(rateCell.value) - Val(dominant)) > VALIDATION_TOLERANCE

\* lines 1252-1273, the keys `${rowIdx}:${cellOffset}` as pairs
OutliersOf(rows, periods, columnCount, rateColumnIndex, dominantRateMap) ==
    { <<rowIdx, periodIdx * columnCount + rateColumnIndex>> :
        <<rowIdx, periodIdx>> \in
          { <<r, q>> \in (0..(Len(rows) - 1)) \X (0..(Len(periods) - 1)) :
              IsOutlier(rows[r + 1].cells[q * columnCount + rateColumnIndex + 1],
                        MapGet(dominantRateMap,
                               RateKey(rows[r + 1].metric, periods[q + 1].key))) } }

RateOutliers(detailedRows, rows, periods, exportColumns, rateColumnIndex) ==
    IF rateColumnIndex >= 0
      THEN OutliersOf(rows, periods, Len(exportColumns), rateColumnIndex,
                      BuildDominantRateMap(detailedRows))
      ELSE {}

(***************************************************************************)
(* The fixed-fee rollup and its row in the sheet.                          *)
(***************************************************************************)
ToLowerChar(c) ==
    CASE c = "A" -> "a" [] c = "B" -> "b" [] c = "LSTROKE" -> "lstroke" [] c = "O" -> "o"
      [] c = "P" -> "p" [] c = "S" -> "s" [] c = "T" -> "t" [] c = "W" -> "w"
      [] OTHER -> c

ToLowerCase(text) == [i \in 1..Len(text) |-> ToLowerChar(text[i])]

OplataStala == <<"o", "p", "lstroke", "a", "t", "a", " ", "s", "t", "a", "lstroke", "a">>

\* a fee test that compares the metric as written
IsFixedFeeExactCase(metric) == metric = OplataStala
\* row.metric.toLowerCase() === "opłata stała"
IsFixedFee(metric) == ToLowerCase(metric) = OplataStala

\* lines 1278-1283
AddFixedFee(fixedFeeSummary, row) ==
    IF IsFixedFee(row.metric) /\ ~IsNull(row.reportedTotal)
      THEN MapSet(fixedFeeSummary, row.periodKey,
                  OrElse(MapGet(fixedFeeSummary, row.periodKey), 0) + Val(row.reportedTotal))
      ELSE fixedFeeSummary

RECURSIVE FixedFeeSummary(_, _)
FixedFeeSummary(detailedRows, n) ==
    IF n = 0 THEN <<>> ELSE AddFixedFee(FixedFeeSummary(detailedRows, n - 1), detailedRows[n])

\* lines 1285-1302, without the header texts and the time stamp
PayloadOf(detailedRows, exportColumns, includeYearlySummary, periods, rows) ==
    [periods |-> [i \in 1..Len(periods) |->
                    [label |-> periods[i].label, columnCount |-> Len(exportColumns)]],
     columnLabels |-> [i \in 1..Len(exportColumns) |-> EXPORT_COLUMN_LABELS[exportColumns[i]]],
     rows |-> rows,
     rateOutliers |-> RateOutliers(detailedRows, rows, periods, exportColumns,
                                   ArrayIndexOf(exportColumns, "rate")),
     fixedFeeSummary |-> FixedFeeSummary(detailedRows, Len(detailedRows)),
     yearlyRows |-> IF includeYearlySummary THEN BuildYearlyExportRows(detailedRows)
                    ELSE <<>>]

PayloadOver(detailedRows, exportColumns, includeYearlySummary, periods) ==
    PayloadOf(detailedRows, exportColumns, includeYearlySummary, periods,
              PivotRows(detailedRows, periods, exportColumns))

BuildExportPayload(detailedRows, exportColumns, includeYearlySummary) ==
    PayloadOver(detailedRows, exportColumns, includeYearlySummary, Periods(detailedRows))

\* label.replace(" - ", "|"): the first occurrence of the three characters
FirstDash(label) ==
    IF \E i \in 1..(Len(label) - 2) : SubSeq(label, i, i + 2) = <<" ", "-", " ">>
      THEN CHOOSE i \in 1..(Len(label) - 2) :
             /\ SubSeq(label, i, i + 2) = <<" ", "-", " ">>
             /\ \A j \in 1..(i - 1) : SubSeq(label, j, j + 2) # <<" ", "-", " ">>
      ELSE 0

ReplaceDashAt(label, i) ==
    IF i = 0 THEN label
    ELSE SubSeq(label, 1, i - 1) \o <<"|">> \o SubSeq(label, i + 3, Len(label))

LabelAsKey(label) == ReplaceDashAt(label, FirstDash(label))

\* lines 764-767: payload.periods.findIndex(...), -1 when there is none
FindPeriodIndex(periods, periodKey) ==
    IF \E i \in 1..Len(periods) :
         periods[i].label = periodKey \/ LabelAsKey(periods[i].label) = periodKey
      THEN (CHOOSE i \in 1..Len(periods) :
              /\ periods[i].label = periodKey \/ LabelAsKey(periods[i].label) = periodKey
              /\ \A j \in 1..(i - 1) :
                   ~(periods[j].label = periodKey \/ LabelAsKey(periods[j].label) = periodKey))
           - 1
      ELSE -1

\* lines 768-770: the summary values after one entry of the rollup
PlaceSum(summaryValues, periodIdx, colCount, reportedTotalIndex, sum) ==
    IF periodIdx < 0 \/ reportedTotalIndex < 0 THEN summaryValues
    ELSE LET at == 3 + periodIdx * colCount + reportedTotalIndex + 1
         IN  IF at <= Len(summaryValues)
               THEN [summaryValues EXCEPT ![at] = Some(RoundTo2(sum, 1))]
               ELSE summaryValues \o [i \in 1..(at - Len(summaryValues) - 1) |-> Null]
                      \o <<Some(RoundTo2(sum, 1))>>

RECURSIVE PlaceSums(_, _, _, _)
PlaceSums(payload, n, reportedTotalIndex, blank) ==
    IF n = 0 THEN blank
    ELSE PlaceSum(PlaceSums(payload, n - 1, reportedTotalIndex, blank),
                  FindPeriodIndex(payload.periods, payload.fixedFeeSummary[n].key),
                  Len(payload.columnLabels), reportedTotalIndex,
                  payload.fixedFeeSummary[n].value)

\* lines 750-758: "", the caption, "", then one null per cell of the first row
BlankSummaryValues(rows) ==
    <<Some(""), Some("SUMA oplat stalych"), Some("")>>
      \o [i \in 1..(IF Len(rows) = 0 THEN 0 ELSE Len(rows[1].cells)) |-> Null]

\* lines 746-772: the values of the fixed-fee row, null when no row is added
FixedFeeRow(payload) ==
    IF Len(payload.fixedFeeSummary) = 0 THEN Null
    ELSE Some(PlaceSums(payload, Len(payload.fixedFeeSummary),
                        ArrayIndexOf(payload.columnLabels, "Suma raportowana"),
                        BlankSummaryValues(payload.rows)))

(***************************************************************************)
(* buildYearOverYearExportRows.  A note is the sequence of its parts       *)
(* <<remark, year>> (year 0 for a remark on the pair of years).            *)
(***************************************************************************)
\* lines 1494-1500
YearPeriod(row, fromTimestamp, toTimestamp, normalizedDateTo) ==
    [start |-> Val(row.startValue), end |-> Val(row.endValue),
     fromTimestamp |-> fromTimestamp, toTimestamp |-> toTimestamp,
     toMonth |-> IsoMonth(normalizedDateTo)]

\* lines 1490-1523
AddYearPeriod(groups, at, row, year, period) ==
    IF IsNull(at)
      THEN Append(groups, [key |-> GroupKey(row), address |-> row.address,
                           apartment |-> row.apartment, metric |-> row.metric,
                           periodsByYear |-> <<[key |-> year, value |-> <<period>>]>>])
      ELSE [groups EXCEPT ![Val(at)].periodsByYear =
              MapSet(@, year, Append(OrElse(MapGet(@, year), <<>>), period))]

\* lines 1468-1488: the row is passed over
YearOverYearSkips(row, normalizedDateFrom, normalizedDateTo) ==
    \/ IsNull(row.startValue) \/ IsNull(row.endValue)
    \/ IsNull(normalizedDateFrom) \/ IsNull(normalizedDateTo)
    \/ IsNull(TimestampOf(normalizedDateFrom)) \/ IsNull(TimestampOf(normalizedDateTo))

YearOverYearStep(groups, row, normalizedDateFrom, normalizedDateTo) ==
    IF YearOverYearSkips(row, normalizedDateFrom, normalizedDateTo) THEN groups
    ELSE AddYearPeriod(groups, MapAt(groups, GroupKey(row)), row,
                       IsoYear(Val(normalizedDateTo)),
                       YearPeriod(row, Val(TimestampOf(normalizedDateFrom)),
                                  Val(TimestampOf(normalizedDateTo)), Val(normalizedDateTo)))

RECURSIVE YearOverYearGroups(_, _)
YearOverYearGroups(detailedRows, n) ==
    IF n = 0 THEN <<>>
    ELSE YearOverYearStep(YearOverYearGroups(detailedRows, n - 1), detailedRows[n],
                          NormalizeDate(detailedRows[n].dateFrom),
                          NormalizeDate(detailedRows[n].dateTo))

\* lines 1538-1545
CompareYearPeriods(left, right) ==
    FirstDifference(left.fromTimestamp - right.fromTimestamp,
                    left.toTimestamp - right.toTimestamp, 0)

\* the periods of a year as they were read, unsorted
YearPeriodsAsRead(periods) == periods
\* lines 1538-1545
SortYearPeriods(periods) ==
    Sorted(periods, [i \in 1..Len(periods), j \in 1..Len(periods) |->
                       CompareYearPeriods(periods[i], periods[j])])

\* lines 1554-1563
HasContinuityIssue(periods) ==
    \E index \in 2..Len(periods) :
       Abs(periods[index - 1].end - periods[index].start) > VALIDATION_TOLERANCE

\* lines 1565-1580
YearNote(year, periods, comparisonMonth, annualConsumption, summedPeriods) ==
    (IF periods[Len(periods)].toMonth # comparisonMonth
       THEN << <<"brak zamkniecia w miesiacu", year>> >> ELSE <<>>)
    \o (IF HasContinuityIssue(periods)
          THEN << <<"niespojna ciaglosc odczytow", year>> >> ELSE <<>>)
    \o (IF Abs(summedPeriods - annualConsumption) > VALIDATION_TOLERANCE
          THEN << <<"suma okresow rozni sie od rocznej roznicy odczytow", year>> >>
          ELSE <<>>)

\* lines 1547-1586, on the sorted periods of the year
AnnualOfSorted(year, periods, comparisonMonth) ==
    [consumption |-> RoundTo2(periods[Len(periods)].end - periods[1].start, 1),
     note |-> YearNote(year, periods, comparisonMonth,
                  RoundTo2(periods[Len(periods)].end - periods[1].start, 1),
                  RoundTo2(SumSeq([i \in 1..Len(periods) |->
                                     periods[i].end - periods[i].start]), 1))]

\* lines 1528-1586: year -> [consumption, note]
AnnualConsumptionByYear(periodsByYear, comparisonMonth) ==
    [i \in 1..Len(periodsByYear) |->
        [key |-> periodsByYear[i].key,
         value |-> AnnualOfSorted(periodsByYear[i].key,
                                  SortYearPeriods(periodsByYear[i].value), comparisonMonth)]]

\* Math.round(n / d), the ratio taken exactly
RoundRatio(n, d) == IF d > 0 THEN (2 * n + d) \div (2 * d) ELSE (-(2 * n) - d) \div (-(2 * d))

\* roundTo2((difference / baseConsumption) * 100); both are whole hundredths
PercentOf(difference, baseConsumption) ==
    RoundRatio((difference \div 100) * 100 * 100, baseConsumption \div 100) * 100

\* lines 1609-1612
ChangePercent(difference, baseConsumption) ==
    IF Abs(baseConsumption) <= VALIDATION_TOLERANCE THEN Null
    ELSE Some(PercentOf(difference, baseConsumption))

\* a trend by the sign of the difference alone
TrendBySign(difference) ==
    IF difference = 0 THEN "Bez zmian" ELSE IF difference > 0 THEN "Wzrost" ELSE "Spadek"
\* lines 1613-1618
Trend(difference) ==
    IF Abs(difference) <= VALIDATION_TOLERANCE THEN "Bez zmian"
    ELSE IF difference > 0 THEN "Wzrost" ELSE "Spadek"

\* lines 1620-1632
PairNote(baseYearData, compareYearData, changePercent) ==
    (IF baseYearData.consumption < 0 \/ compareYearData.consumption < 0
       THEN << <<"ujemne zuzycie roczne", 0>> >> ELSE <<>>)
    \o (IF IsNull(changePercent) THEN << <<"zuzycie bazowe bliskie zera", 0>> >> ELSE <<>>)
    \o baseYearData.note \o compareYearData.note

NoteOrNull(noteParts) == IF Len(noteParts) > 0 THEN Some(noteParts) ELSE Null

\* lines 1606-1647
YearOverYearRowOf(group, compareYear, baseYearData, compareYearData, difference) ==
    [address |-> group.address, apartment |-> group.apartment, metric |-> group.metric,
     baseYear |-> compareYear - 1, compareYear |-> compareYear,
     baseConsumption |-> baseYearData.consumption,
     compareConsumption |-> compareYearData.consumption,
     difference |-> difference,
     changePercent |-> ChangePercent(difference, baseYearData.consumption),
     trend |-> Trend(difference),
     note |-> NoteOrNull(PairNote(baseYearData, compareYearData,
                                  ChangePercent(difference, baseYearData.consumption)))]

\* lines 1595-1647: the rows pushed for one compare year
PairWithBaseYear(group, compareYear, baseYearData, compareYearData) ==
    IF IsNull(baseYearData) \/ IsNull(compareYearData) THEN <<>>
    ELSE << YearOverYearRowOf(group, compareYear, Val(baseYearData), Val(compareYearData),
                RoundTo2(Val(compareYearData).consumption - Val(baseYearData).consumption, 1)) >>

SortYears(years) ==
    Sorted(years, [i \in 1..Len(years), j \in 1..Len(years) |-> years[i] - years[j]])

RowsOfYears(group, annual, years) ==
    Flatten([y \in 1..Len(years) |->
               PairWithBaseYear(group, years[y], MapGet(annual, years[y] - 1),
                                MapGet(annual, years[y]))])

\* lines 1588-1647
RowsOfGroup(group, annual) ==
    IF Len(annual) < 2 THEN <<>>
    ELSE RowsOfYears(group, annual, SortYears([i \in 1..Len(annual) |-> annual[i].key]))

GroupRows(groups, comparisonMonth) ==
    Flatten([g \in 1..Len(groups) |->
               RowsOfGroup(groups[g],
                           AnnualConsumptionByYear(groups[g].periodsByYear, comparisonMonth))])

\* lines 1650-1667
CompareYearOverYearRows(left, right) ==
    FirstOf4(TextCompare(left.address, right.address),
             CompareApartments(left.apartment, right.apartment),
             TextCompare(left.metric, right.metric),
             left.compareYear - right.compareYear)

SortYearOverYearRows(result) ==
    Sorted(result, [i \in 1..Len(result), j \in 1..Len(result) |->
                      CompareYearOverYearRows(result[i], result[j])])

BuildYearOverYearExportRows(detailedRows, comparisonMonth) ==
    SortYearOverYearRows(
        GroupRows(YearOverYearGroups(detailedRows, Len(detailedRows)), comparisonMonth))

\* the local annualConsumptionByYear of each group, by group key
AnnualByGroup(groups, comparisonMonth) ==
    [g \in 1..Len(groups) |->
        [key |-> groups[g].key,
         value |-> AnnualConsumptionByYear(groups[g].periodsByYear, comparisonMonth)]]

\* buildYearOverYearExcelFile, lines 453 and 466-479: the detailed rows, the
\* annual consumptions computed on the way and the rows of the report
YearOverYearOfRows(request, detailedRows) ==
    [detailedRows |-> detailedRows,
     annual |-> AnnualByGroup(YearOverYearGroups(detailedRows, Len(detailedRows)),
                              OrElse(request.comparisonMonth, 12)),
     rows |-> BuildYearOverYearExportRows(detailedRows, OrElse(request.comparisonMonth, 12))]

YearOverYearOf(request, workbook) ==
    YearOverYearOfRows(request,
        BuildDetailedRows(request, workbook,
                          ResolveSelectedMetrics(request.metrics, workbook.headers)))

\* buildSummaryExcelFile, lines 397-416 and the fixed-fee row of the sheet: the
\* rows, the payload and the values of the fixed-fee row
ExportOfPayload(detailedRows, payload) ==
    [detailedRows |-> detailedRows, payload |-> payload, fixedFeeRow |-> FixedFeeRow(payload)]

ExportOfRows(request, detailedRows) ==
    ExportOfPayload(detailedRows,
        BuildExportPayload(detailedRows, ResolveExportColumns(request.exportColumns),
                           OrElse(request.includeYearlySummary, TRUE)))

ExportOf(request, workbook) ==
    ExportOfRows(request,
        BuildDetailedRows(request, workbook,
                          ResolveSelectedMetrics(request.metrics, workbook.headers)))

(***************************************************************************)
(* buildSummaryData: the rows, the totals by metric and the statistics of  *)
(* a summary (lines 916-999)                                               *)
(***************************************************************************)
\* lines 937-942
TotalValidationState(row) ==
    IF row.totalIsValid = Some(FALSE) \/ row.consumptionIsValid = Some(FALSE) THEN Some(FALSE)
    ELSE IF row.totalIsValid = Some(TRUE) THEN Some(TRUE)
    ELSE Null

\* a validity that is shown whatever the request says
SummaryIsValidAlways(includeValidation, row) == TotalValidationState(row)
\* line 954
SummaryIsValid(includeValidation, row) ==
    IF includeValidation THEN TotalValidationState(row) ELSE Null

\* lines 944-955
SummaryRow(includeValidation, row) ==
    [apartment     |-> row.apartmentFull,
     dateFrom      |-> row.dateFrom,
     dateTo        |-> row.dateTo,
     metric        |-> row.metric,
     consumption   |-> row.consumptionReported,
     rate          |-> row.rate,
     reportedTotal |-> row.reportedTotal,
     computedTotal |-> IF includeValidation THEN row.computedTotal ELSE Null,
     difference    |-> IF includeValidation THEN row.totalDifference ELSE Null,
     isValid       |-> SummaryIsValid(includeValidation, row)]

SummaryRows(includeValidation, detailedRows) ==
    [i \in 1..Len(detailedRows) |-> SummaryRow(includeValidation, detailedRows[i])]

\* reduce((sum, row) => sum + (row[field] ?? 0), 0), rounded
RoundedSumOf(metricRows, field) ==
    RoundTo2(SumSeq([i \in 1..Len(metricRows) |-> OrZero(metricRows[i][field])]), 1)

\* lines 960-979, on the rows of the metric
MetricTotals(includeValidation, metricName, metricRows, reportedTotal, computedTotal) ==
    [metric           |-> metricName,
     rowCount         |-> Len(metricRows),
     totalConsumption |-> RoundedSumOf(metricRows, "consumption"),
     reportedTotal    |-> reportedTotal,
     computedTotal    |-> IF includeValidation THEN Some(computedTotal) ELSE Null,
     difference       |-> IF includeValidation
                            THEN Some(RoundTo2(reportedTotal - computedTotal, 1))
                            ELSE Null]

TotalsOfMetric(includeValidation, metricName, metricRows) ==
    MetricTotals(includeValidation, metricName, metricRows,
                 RoundedSumOf(metricRows, "reportedTotal"),
                 RoundedSumOf(metricRows, "computedTotal"))

\* lines 958-980
TotalsByMetric(includeValidation, selectedMetrics, rows) ==
    [k \in 1..Len(selectedMetrics) |->
        TotalsOfMetric(includeValidation, selectedMetrics[k],
                       SelectSeq(rows, LAMBDA row : row.metric = selectedMetrics[k]))]

\* lines 992-996
SummaryStats(rows) ==
    [rowsCount   |-> Len(rows),
     validRows   |-> Len(SelectSeq(rows, LAMBDA row : row.isValid = Some(TRUE))),
     invalidRows |-> Len(SelectSeq(rows, LAMBDA row : row.isValid = Some(FALSE)))]

SummaryOfRows(request, selectedMetrics, includeValidation, rows) ==
    [uploadId       |-> request.uploadId,
     selected       |-> [apartment             |-> TrimOrNull(request.apartment),
                         dateFrom              |-> NormalizeOptionalDate(request.dateFrom),
                         dateTo                |-> NormalizeOptionalDate(request.dateTo),
                         metrics               |-> selectedMetrics,
                         includeValidation     |-> includeValidation,
                         includeOnlyMismatches |-> OrElse(request.includeOnlyMismatches, FALSE)],
     stats          |-> SummaryStats(rows),
     totalsByMetric |-> TotalsByMetric(includeValidation, selectedMetrics, rows),
     rows           |-> rows]

SummaryOver(request, parsedWorkbook, selectedMetrics, includeValidation) ==
    SummaryOfRows(request, selectedMetrics, includeValidation,
                  SummaryRows(includeValidation,
                              BuildDetailedRows(request, parsedWorkbook, selectedMetrics)))

\* lines 923-999, for the workbook of the session
BuildSummaryData(request, parsedWorkbook) ==
    SummaryOver(request, parsedWorkbook,
                ResolveSelectedMetrics(request.metrics, parsedWorkbook.headers),
                OrElse(request.includeValidation, TRUE))

(***************************************************************************)
(* The session store (a Map) and the lookups of the request handlers.      *)
(***************************************************************************)
\* randomUUID(): an identifier no stored session has
NewUploadId(st) ==
    CHOOSE id \in 1..(Cardinality(DOMAIN st) + 1) :
        id \notin DOMAIN st /\ \A x \in 1..(id - 1) : x \in DOMAIN st

\* a store that keeps only the newest session
StoreSetDropsOthers(st, id, session) == [x \in {id} |-> session]
\* a store whose entries all point at the newest session
StoreSetShared(st, id, session) == [x \in DOMAIN st \cup {id} |-> session]
\* this.uploadAnalysisStore.set(uploadId, session)
StoreSet(st, id, session) ==
    [x \in DOMAIN st \cup {id} |-> IF x = id THEN session ELSE st[x]]

\* a lookup that falls back on some stored session
StoreGetOrAny(st, id) ==
    IF id \in DOMAIN st THEN Some(st[id])
    ELSE IF DOMAIN st # {} THEN Some(st[CHOOSE x \in DOMAIN st : TRUE]) ELSE Null
\* this.uploadAnalysisStore.get(request.uploadId)
StoreGet(st, id) == IF id \in DOMAIN st THEN Some(st[id]) ELSE Null

(***************************************************************************)
(* uploadExcelFiles: the locals of one call and what one loop iteration    *)
(* does to them.  A call that throws has pc "threw" and the message.       *)
(***************************************************************************)
ACCEPTED_EXCEL_MIME_TYPES ==
    { "application/vnd.openxmlformats-officedocument.spreadsheetml.sheet",
      "application/vnd.ms-excel", "text/csv", "application/csv" }

\* validateExcelFile passes
ValidateExcelFile(file) ==
    \/ file.extension \in {".xlsx", ".xls", ".csv"}
    \/ file.mimetype \in ACCEPTED_EXCEL_MIME_TYPES

\* readUploadedFileBuffer finds the bytes
CanReadBuffer(file) == file.hasBuffer \/ file.hasPath

IdleCall ==
    [pc |-> "idle", files |-> <<>>, idx |-> 0, parsedWorkbooks |-> <<>>,
     sourceFileNames |-> <<>>, uploadedFiles |-> <<>>, analysisDraftError |-> Null,
     thrown |-> Null, storageFailed |-> FALSE]

StartCall(files) == [IdleCall EXCEPT !.pc = "loop", !.files = files, !.idx = 1]

Throw(call, message) == [call EXCEPT !.pc = "threw", !.thrown = Some(message)]

\* a parse failure that escapes the loop
OnParseFailureRethrows(call, message) == Throw(call, message)
\* lines 291-296: the catch around parseWorkbookFromBuffer
OnParseFailure(call, message) == [call EXCEPT !.analysisDraftError = Some(message)]

\* lines 276-284
Archived(call, file) ==
    [call EXCEPT !.uploadedFiles = Append(@, file.originalname),
                 !.sourceFileNames = Append(@, file.originalname)]

ParsedInto(call, r) ==
    IF r.ok THEN [call EXCEPT !.parsedWorkbooks = Append(@, r.workbook)]
    ELSE OnParseFailure(call, r.message)

\* lines 286-296
ParseInto(call, file) == ParsedInto(call, ParseWorkbookFromBuffer(file.content))

\* lines 268-274: `uploaded.uploaded` is false (storageFailed only records it)
OnStorageFailure(call, file) ==
    Throw([call EXCEPT !.storageFailed = TRUE], "Upload failed for file: storage error")

\* line 253: the loop goes on to the next file unless the iteration threw
Advance(n) == IF n.pc = "threw" THEN n ELSE [n EXCEPT !.idx = @ + 1]

\* one iteration of the loop of lines 253-300 on files[idx]
FileStep(call, file, storageOk) ==
    IF ~ValidateExcelFile(file)
      THEN Throw(call, "Only .xlsx, .xls or .csv files are allowed")
    ELSE IF ~CanReadBuffer(file)
      THEN Throw(call, "Upload failed for file: missing file content")
    ELSE IF storageOk THEN Advance(ParseInto(Archived(call, file), file))
    ELSE Advance(OnStorageFailure(call, file))

\* the session of lines 320-325 (createdAt, a wall-clock stamp, is left out)
NewSession(workbook, sourceFiles, userId) ==
    [workbook |-> workbook, sourceFiles |-> sourceFiles, requestedByUserId |-> userId]

\* lines 333-339
UploadResult(call, analysisDraft) ==
    [uploaded           |-> TRUE,
     filesCount         |-> Len(call.files),
     uploadedFiles      |-> call.uploadedFiles,
     analysisDraft      |-> analysisDraft,
     analysisDraftError |-> call.analysisDraftError]

(***************************************************************************)
(* Texts the specifications draw their inputs from.                        *)
(***************************************************************************)
Woda == <<"W">>
Prad == <<"P">>
Lokal1 == <<"5", "/", "1">>
Lokal2 == <<"5", "/", "2">>
Jan01 == <<"2", "0", "2", "3", "-", "0", "1", "-", "0", "1">>
Jun30 == <<"2", "0", "2", "3", "-", "0", "6", "-", "3", "0">>
Jul01Polish == <<"1", ".", "7", ".", "2", "0", "2", "3">>
Dec31 == <<"2", "0", "2", "3", "-", "1", "2", "-", "3", "1">>

StartTexts == { <<"0">>, <<" ", "0", ",", "5">>, <<>> }
EndTexts == { <<"1">>, <<"1", ",", "5">>, <<"x">> }
ConsumptionTexts ==
    { <<"1">>, <<"1", ",", "0", "5">>, <<"1", ",", "0", "5", "0", "1">>,
      <<"1", ".", "0", "6">>, <<"0", ",", "9", "5">>, <<"0", ",", "9", "4", "9", "9">>,
      <<"0">>, <<"-", "1">>, <<"1", ",", "0", "5", "4", "9">>, <<>> }
RateTexts == { <<"1">>, <<"2", ",", "5">>, <<"-">> }
TotalTexts ==
    { <<"1">>, <<"1", ",", "0", "5">>, <<"1", ",", "0", "5", "0", "1">>,
      <<"2", ",", "5">>, <<"2", ".", "5", "6">>, <<"0">>, <<>> }

NoRequest(uploadId) ==
    [uploadId |-> uploadId, apartment |-> Null, dateFrom |-> Null, dateTo |-> Null,
     metrics |-> Null, includeValidation |-> Null, includeOnlyMismatches |-> Null,
     exportColumns |-> Null, includeYearlySummary |-> Null, comparisonMonth |-> Null]

(***************************************************************************)
(* The variables a specification does not use stay at these values.        *)
(***************************************************************************)
NoResp == [op |-> "none"]

SessionsIdle ==
    /\ store = <<>> /\ created = <<>> /\ calls = <<>> /\ archive = {}
    /\ resp = NoResp /\ tmpfiles = {}

ParserIdle == prow = 0 /\ precords = <<>>

(***************************************************************************)
(* SpecRows: buildDetailedRows on one block with one metric.               *)
(***************************************************************************)
RowsInputs ==
    { [request  |-> [NoRequest(1) EXCEPT !.includeOnlyMismatches = flag],
       workbook |-> ParsedWorkbook(<<Woda>>,
          << [apartment |-> Lokal1, dateFrom |-> Jan01, dateTo |-> Jun30,
              metrics |-> << [metric |-> Woda, startValue |-> sv, endValue |-> ev,
                              consumption |-> cv, rate |-> rv, total |-> tv] >>] >>)] :
      flag \in {Null, Some(FALSE), Some(TRUE)}, sv \in StartTexts, ev \in EndTexts,
      cv \in ConsumptionTexts, rv \in RateTexts, tv \in TotalTexts }

InitRows ==
    /\ SessionsIdle /\ ParserIdle
    /\ phase = "rows"
    /\ input \in RowsInputs
    /\ output = <<>>

BuildRows ==
    /\ phase = "rows"
    /\ output' = BuildDetailedRows(input.request, input.workbook,
                    ResolveSelectedMetrics(input.request.metrics, input.workbook.headers))
    /\ phase' = "rowsDone"
    /\ UNCHANGED <<tmpfiles, store, calls, archive, resp, created, input, prow, precords>>

NextRows == BuildRows

SpecRows == InitRows /\ [][NextRows]_vars

\* C1: whenever start reading, end reading and reported consumption parse,
\* consumptionIsValid is true exactly when |reported - (end - start)| <= 0.05
\* (so a difference of 0.0501 is invalid); otherwise consumptionIsValid is null.
ConsumptionValidIffWithinTolerance ==
    phase = "rowsDone" =>
      \A i \in 1..Len(output) :
        LET r == output[i] IN
        IF ~IsNull(r.startValue) /\ ~IsNull(r.endValue) /\ ~IsNull(r.consumptionReported)
          THEN r.consumptionIsValid =
                 Some(Abs(Val(r.consumptionReported) - (Val(r.endValue) - Val(r.startValue)))
                        <= VALIDATION_TOLERANCE)
          ELSE IsNull(r.consumptionIsValid)

\* C2: whenever reported consumption, rate and reported total parse, totalIsValid
\* is true exactly when |reportedTotal - reportedConsumption * rate| <= 0.05;
\* otherwise totalIsValid is null.  (Both sides are in units of 1/SCALE^2.)
TotalValidIffWithinTolerance ==
    phase = "rowsDone" =>
      \A i \in 1..Len(output) :
        LET r == output[i] IN
        IF ~IsNull(r.consumptionReported) /\ ~IsNull(r.rate) /\ ~IsNull(r.reportedTotal)
          THEN r.totalIsValid =
                 Some(Abs(Val(r.reportedTotal) * SCALE - Val(r.consumptionReported) * Val(r.rate))
                        <= VALIDATION_TOLERANCE * SCALE)
          ELSE IsNull(r.totalIsValid)

\* the one row of the input block, before the "only mismatches" rule
InputRow == DetailedRow(input.workbook.records[1], input.workbook.records[1].metrics[1])

\* C12: with includeOnlyMismatches set, the row (its metric is selected and it
\* passes the apartment and date filters) is retained if and only if
\* consumptionIsValid is false, or totalIsValid is false, or its reported
\* consumption parses and is <= 0; with the flag unset (absent or false) the
\* row is never dropped.
OnlyMismatchesKeepsSuspiciousRows ==
    phase = "rowsDone" =>
      /\ Len(output) <= 1
      /\ \A i \in 1..Len(output) : output[i] = InputRow
      /\ input.request.includeOnlyMismatches # Some(TRUE) => Len(output) = 1
      /\ input.request.includeOnlyMismatches = Some(TRUE) =>
           (Len(output) = 1 <=>
              \/ InputRow.consumptionIsValid = Some(FALSE)
              \/ InputRow.totalIsValid = Some(FALSE)
              \/ (~IsNull(InputRow.consumptionReported)
                    /\ Val(InputRow.consumptionReported) <= 0))

\* C12 witness: with the flag set, a row with no validity failure (consumption
\* not determinable, charge valid) is retained for its reported consumption 0.
RowKeptForNonPositiveConsumption ==
    /\ phase = "rowsDone"
    /\ input.request.includeOnlyMismatches = Some(TRUE)
    /\ Len(output) = 1
    /\ IsNull(output[1].consumptionIsValid)
    /\ output[1].totalIsValid = Some(TRUE)
    /\ output[1].consumptionReported = Some(0)

(***************************************************************************)
(* SpecRange: the date-range filter of buildDetailedRows on one record.    *)
(***************************************************************************)
Feb31Iso == <<"2", "0", "2", "3", "-", "0", "2", "-", "3", "1">>
Jun30Polish == <<" ", "3", "0", "/", "0", "6", "/", "2", "0", "2", "3">>

RecordDateTexts == { Jan01, Jun30, Jul01Polish, Dec31, Feb31Iso, <<"x">>, <<>> }

RequestDates == { Null, Some(Jan01), Some(Jun30Polish), Some(Jul01Polish), Some(Dec31),
                  Some(<<"x">>) }

RangeInputs ==
    { [request  |-> [NoRequest(1) EXCEPT !.dateFrom = rf, !.dateTo = rt],
       workbook |-> ParsedWorkbook(<<Woda>>,
          << [apartment |-> Lokal1, dateFrom |-> df, dateTo |-> dt,
              metrics |-> << [metric |-> Woda, startValue |-> <<"0">>, endValue |-> <<"1">>,
                              consumption |-> <<"1">>, rate |-> <<"1">>,
                              total |-> <<"1">>] >>] >>)] :
      rf \in RequestDates, rt \in RequestDates,
      df \in RecordDateTexts, dt \in RecordDateTexts }

InitRange ==
    /\ SessionsIdle /\ ParserIdle
    /\ phase = "range"
    /\ input \in RangeInputs
    /\ output = <<>>

FilterByRange ==
    /\ phase = "range"
    /\ output' = BuildDetailedRows(input.request, input.workbook,
                    ResolveSelectedMetrics(input.request.metrics, input.workbook.headers))
    /\ phase' = "rangeDone"
    /\ UNCHANGED <<tmpfiles, store, calls, archive, resp, created, input, prow, precords>>

NextRange == FilterByRange

SpecRange == InitRange /\ [][NextRange]_vars

\* the day an ISO text yyyy-mm-dd names, as the number yyyymmdd
DayNumber(iso) ==
    DigitsToNat(SubSeq(iso, 1, 4)) * 10000 + DigitsToNat(SubSeq(iso, 6, 7)) * 100
        + DigitsToNat(SubSeq(iso, 9, 10))

\* the requested range end is given as a date
RangeEndGiven(o) == ~IsNull(o) /\ ~IsNull(NormalizeDate(Val(o)))

RangeEndDay(o) == DayNumber(Val(NormalizeDate(Val(o))))

RecordDatesNormalize ==
    /\ ~IsNull(NormalizeDate(input.workbook.records[1].dateFrom))
    /\ ~IsNull(NormalizeDate(input.workbook.records[1].dateTo))

RecordStartDay == DayNumber(Val(NormalizeDate(input.workbook.records[1].dateFrom)))
RecordEndDay == DayNumber(Val(NormalizeDate(input.workbook.records[1].dateTo)))

\* C11: the date-range filter drops a record if and only if both of its dates
\* normalize and its span does not intersect the requested range (requested
\* dateFrom given and record end < dateFrom, or requested dateTo given and
\* record start > dateTo; both range ends inclusive); a record with a date
\* that cannot be normalized is kept for every requested range.
RangeFilterDropsOnlyDisjointSpans ==
    phase = "rangeDone" =>
      /\ (Len(output) = 0) <=>
            /\ RecordDatesNormalize
            /\ \/ RangeEndGiven(input.request.dateFrom)
                    /\ RecordEndDay < RangeEndDay(input.request.dateFrom)
               \/ RangeEndGiven(input.request.dateTo)
                    /\ RecordStartDay > RangeEndDay(input.request.dateTo)
      /\ ~RecordDatesNormalize => Len(output) = 1

\* C11 witness: a record that ends on the day the requested range starts (both
\* written in the Polish form) is kept, the range end being inclusive.
RecordEndingOnRangeStartKept ==
    /\ phase = "rangeDone"
    /\ input.workbook.records[1].dateFrom = Jan01
    /\ input.workbook.records[1].dateTo = Jul01Polish
    /\ input.request.dateFrom = Some(Jul01Polish)
    /\ input.request.dateTo = Some(Dec31)
    /\ Len(output) = 1

(***************************************************************************)
(* SpecYearly: the pivot export of a workbook whose records are drawn from *)
(* half-year, whole-year, overlapping, gapped and year-crossing periods of *)
(* two apartments.  The records of a stored workbook are in the order      *)
(* mergeParsedWorkbooks leaves them in.                                    *)
(***************************************************************************)
MaxYearlyRecords == 3

Jun01 == <<"2", "0", "2", "3", "-", "0", "6", "-", "0", "1">>
Jul11 == <<"2", "0", "2", "3", "-", "0", "7", "-", "1", "1">>
Dec01Before == <<"2", "0", "2", "2", "-", "1", "2", "-", "0", "1">>

YearlyPeriods ==
    { <<Jan01, Jun30>>, <<Jul01Polish, Dec31>>, <<Jul11, Dec31>>, <<Dec01Before, Jun30>>,
      <<Jan01, Dec31>>, <<Jun01, Dec31>> }

PlainMetric(metric) ==
    [metric |-> metric, startValue |-> <<"0">>, endValue |-> <<"1">>,
     consumption |-> <<"1">>, rate |-> <<"1">>, total |-> <<"1">>]

YearlyRecords ==
    { [apartment |-> a, dateFrom |-> p[1], dateTo |-> p[2], metrics |-> <<PlainMetric(Woda)>>] :
        a \in {Lokal1, Lokal2}, p \in YearlyPeriods }

YearlyInputs ==
    { [request  |-> [NoRequest(1) EXCEPT !.includeYearlySummary = flag],
       workbook |-> ParsedWorkbook(<<Woda>>, SortRecords(records))] :
      flag \in {Null, Some(FALSE)},
      records \in UNION { [1..n -> YearlyRecords] : n \in 1..MaxYearlyRecords } }

InitYearly ==
    /\ SessionsIdle /\ ParserIdle
    /\ phase = "export"
    /\ input \in YearlyInputs
    /\ output = <<>>

\* buildSummaryExcelFile on the stored workbook `input.workbook`
BuildExport ==
    /\ phase = "export"
    /\ output' = ExportOf(input.request, input.workbook)
    /\ phase' = "exportDone"
    /\ UNCHANGED <<tmpfiles, store, calls, archive, resp, created, input, prow, precords>>

NextExport == BuildExport

SpecYearly == InitYearly /\ [][NextExport]_vars

YearlyEnabled == input.request.includeYearlySummary # Some(FALSE)

ExportedGroups == { GroupKey(output.detailedRows[i]) : i \in 1..Len(output.detailedRows) }

ModelYears == { IsoYear(Dec01Before), IsoYear(Dec31) }

AnnualRowsOf(key, year) ==
    { i \in 1..Len(output.payload.yearlyRows) :
        /\ GroupKey(output.payload.yearlyRows[i]) = key
        /\ output.payload.yearlyRows[i].year = year }

\* the day intervals of the rows of a group
DaySpans(rows, key) ==
    [i \in 1..Len(rows) |->
        IF GroupKey(rows[i]) = key
          THEN [from |-> Val(ToUtcTimestamp(rows[i].dateFrom)),
                to   |-> Val(ToUtcTimestamp(rows[i].dateTo))]
          ELSE [from |-> 1, to |-> 0]]

\* every day of the year lies in one of the spans
EveryDayCovered(spans, year) ==
    \A d \in DateUTC(year, 1, 1)..DateUTC(year, 12, 31) :
       \E i \in 1..Len(spans) : spans[i].from <= d /\ d <= spans[i].to

\* the spans that lie inside the year
SpansInside(spans, year) ==
    SelectSeq(spans, LAMBDA s : DateUTC(year, 1, 1) <= s.from /\ s.to <= DateUTC(year, 12, 31))

\* C13: with the yearly summary enabled, an annual row is produced for a group
\* and a year Y if and only if the group's filtered periods, clipped to Y,
\* cover every day of Y, periods that start or end outside Y included.
AnnualRowIffClippedPeriodsCoverYear ==
    (phase = "exportDone" /\ YearlyEnabled) =>
       \A key \in ExportedGroups : \A year \in ModelYears :
          (AnnualRowsOf(key, year) # {}) <=>
             EveryDayCovered(DaySpans(output.detailedRows, key), year)

\* the rows of the group are the two half years of 2023, one row each
IsTwoHalfYears(rows, key) ==
    /\ Cardinality({ i \in 1..Len(rows) : GroupKey(rows[i]) = key }) = 2
    /\ \E i, j \in 1..Len(rows) :
          /\ GroupKey(rows[i]) = key /\ GroupKey(rows[j]) = key
          /\ rows[i].dateFrom = Jan01 /\ rows[i].dateTo = Jun30
          /\ rows[j].dateFrom = NormalizeDate(Jul01Polish)[1] /\ rows[j].dateTo = Dec31

\* C14: the periods 2023-01-01..2023-06-30 and 2023-07-01..2023-12-31 of one
\* group yield exactly one annual row, for 2023 and with period count 2; a
\* group whose periods inside a year leave a day of that year uncovered has
\* no annual row for that year.
HalfYearsYieldOneRowAndGapsNone ==
    (phase = "exportDone" /\ YearlyEnabled) =>
       \A key \in ExportedGroups :
          /\ IsTwoHalfYears(output.detailedRows, key) =>
               /\ Cardinality(UNION { AnnualRowsOf(key, year) : year \in ModelYears }) = 1
               /\ \A i \in AnnualRowsOf(key, IsoYear(Dec31)) :
                     output.payload.yearlyRows[i].periodCount = 2
               /\ Cardinality({ i \in 1..Len(output.payload.yearlyRows) :
                                  GroupKey(output.payload.yearlyRows[i]) = key }) = 1
          /\ \A year \in ModelYears :
               ~EveryDayCovered(SpansInside(DaySpans(output.detailedRows, key), year), year)
                  => AnnualRowsOf(key, year) = {}

\* C14 witness: one apartment with the two half years (the second written
\* 1.7.2023) has its annual row, beside an apartment whose periods leave
\* 2023-07-01..2023-07-10 uncovered and which has none.
HalfYearsBesideGap ==
    /\ phase = "exportDone" /\ YearlyEnabled
    /\ Len(input.workbook.records) = 3
    /\ IsTwoHalfYears(output.detailedRows, GroupKey(output.detailedRows[1]))
    /\ output.detailedRows[3].dateFrom = Jul11
    /\ GroupKey(output.detailedRows[3]) # GroupKey(output.detailedRows[1])
    /\ Len(output.payload.yearlyRows) = 1
    /\ output.payload.yearlyRows[1].periodCount = 2
    /\ output.payload.yearlyRows[1].year = IsoYear(Dec31)

(***************************************************************************)
(* SpecYearOverYear: the year-over-year report of a workbook of one        *)
(* apartment (written "5/1" and "5 /1") and a second one, with periods of  *)
(* 2022 to 2025: whole years, half years, a period that starts in the year *)
(* before, readings that continue each other, a reading that does not      *)
(* parse and an annual consumption of 0.04.                                *)
(***************************************************************************)
MaxYearOverYearRecords == 3

Lokal1Spaced == <<"5", " ", "/", "1">>

ReadingRecord(apartment, dateFrom, dateTo, startValue, endValue) ==
    [apartment |-> apartment, dateFrom |-> dateFrom, dateTo |-> dateTo,
     metrics |-> << [metric |-> Woda, startValue |-> startValue, endValue |-> endValue,
                     consumption |-> <<"1">>, rate |-> <<"1">>, total |-> <<"1">>] >>]

YearOverYearRecords ==
    {
      ReadingRecord(Lokal1, <<"2", "0", "2", "2", "-", "0", "1", "-", "0", "1">>, <<"2", "0", "2", "2", "-", "1", "2", "-", "3", "1">>, <<"0">>, <<"1", "0", "0">>),
      ReadingRecord(Lokal1, Jan01, Jun30, <<"1", "0", "0">>, <<"1", "4", "0">>),
      ReadingRecord(Lokal1, Jul01Polish, Dec31, <<"1", "4", "0">>, <<"1", "8", "0">>),
      ReadingRecord(Lokal1Spaced, Jul01Polish, Dec31, <<"1", "4", "0">>, <<"1", "8", "0">>),
      ReadingRecord(Lokal1, <<"2", "0", "2", "4", "-", "0", "1", "-", "0", "1">>, <<"2", "0", "2", "4", "-", "1", "2", "-", "3", "1">>, <<"1", "8", "0">>, <<"1", "8", "3">>),
      ReadingRecord(Lokal1, <<"2", "0", "2", "5", "-", "0", "1", "-", "0", "1">>, <<"2", "0", "2", "5", "-", "1", "2", "-", "3", "1">>, <<"1", "8", "3">>, <<"1", "8", "7">>),
      ReadingRecord(Lokal1, <<"2", "0", "2", "2", "-", "0", "1", "-", "0", "1">>, <<"2", "0", "2", "2", "-", "1", "2", "-", "3", "1">>, <<"0">>, <<"0", ",", "0", "4">>),
      ReadingRecord(Lokal1, Jan01, Dec31, <<"1", "0", "0">>, <<"2", "0", "0", ",", "0", "4", "4">>),
      ReadingRecord(Lokal1, Jan01, Jun30, <<"1", "0", "0">>, <<"x">>),
      ReadingRecord(Lokal1, Dec01Before, Jun30, <<"9", "5">>, <<"1", "4", "0">>),
      ReadingRecord(Lokal2, <<"2", "0", "2", "2", "-", "0", "1", "-", "0", "1">>, <<"2", "0", "2", "2", "-", "1", "2", "-", "3", "1">>, <<"0">>, <<"1", "0", "0">>) }

YearOverYearInputs ==
    { [request  |-> [NoRequest(1) EXCEPT !.comparisonMonth = month],
       workbook |-> ParsedWorkbook(<<Woda>>, SortRecords(records))] :
      month \in {Null, Some(6)},
      records \in UNION { [1..n -> YearOverYearRecords] : n \in 1..MaxYearOverYearRecords } }

InitYearOverYear ==
    /\ SessionsIdle /\ ParserIdle
    /\ phase = "yoy"
    /\ input \in YearOverYearInputs
    /\ output = <<>>

\* buildYearOverYearExcelFile on the stored workbook `input.workbook`
BuildYearOverYear ==
    /\ phase = "yoy"
    /\ output' = YearOverYearOf(input.request, input.workbook)
    /\ phase' = "yoyDone"
    /\ UNCHANGED <<tmpfiles, store, calls, archive, resp, created, input, prow, precords>>

NextYearOverYear == BuildYearOverYear

SpecYearOverYear == InitYearOverYear /\ [][NextYearOverYear]_vars

\* the periods of a group that count for a year: the rows of the group that
\* end in the year and whose two readings parsed
PeriodsOfYear(rows, key, year) ==
    { i \in 1..Len(rows) :
        /\ GroupKey(rows[i]) = key
        /\ ~IsNull(rows[i].startValue) /\ ~IsNull(rows[i].endValue)
        /\ DayNumber(rows[i].dateTo) \div 10000 = year }

\* row i does not come after row j: by start date, then by end date
NotAfter(rows, i, j) ==
    \/ DayNumber(rows[i].dateFrom) < DayNumber(rows[j].dateFrom)
    \/ /\ DayNumber(rows[i].dateFrom) = DayNumber(rows[j].dateFrom)
       /\ DayNumber(rows[i].dateTo) <= DayNumber(rows[j].dateTo)

\* v is x rounded to 2 decimals (half up)
IsRounded(v, x) == v % 100 = 0 /\ v - 50 <= x /\ x < v + 50

ReportYears == 2022..2025

ReportGroups == { GroupKey(output.detailedRows[i]) : i \in 1..Len(output.detailedRows) }

\* the annual consumption computed for the group and the year, null if none
AnnualOf(key, year) ==
    IF MapHas(output.annual, key) THEN MapGet(Val(MapGet(output.annual, key)), year) ELSE Null

IsLastMinusFirst(rows, periods, consumption) ==
    \E f \in periods : \E l \in periods :
       /\ \A j \in periods : NotAfter(rows, f, j) /\ NotAfter(rows, j, l)
       /\ IsRounded(consumption, Val(rows[l].endValue) - Val(rows[f].startValue))

\* C15: for each group and each year with at least one period whose start
\* and end readings both parse (a period counts for the year it ends in), the
\* annual consumption is the end reading of the chronologically last period of
\* the year minus the start reading of the chronologically first one (by start
\* date, then end date), rounded to 2 decimals; other years have none.
AnnualConsumptionIsLastMinusFirst ==
    phase = "yoyDone" =>
       \A key \in ReportGroups : \A year \in ReportYears :
          /\ (PeriodsOfYear(output.detailedRows, key, year) # {}) <=> ~IsNull(AnnualOf(key, year))
          /\ ~IsNull(AnnualOf(key, year)) =>
                IsLastMinusFirst(output.detailedRows,
                                 PeriodsOfYear(output.detailedRows, key, year),
                                 Val(AnnualOf(key, year)).consumption)

\* C15 witness: the second half of 2023 is read before the first half (the
\* apartment written "5 /1" sorts first) and the annual consumption of 2023
\* is 180 - 100 = 80.
AnnualFromPeriodsReadOutOfOrder ==
    /\ phase = "yoyDone"
    /\ Len(output.detailedRows) = 2
    /\ output.detailedRows[1].apartmentFull = Lokal1Spaced
    /\ output.detailedRows[1].startValue = Some(140 * SCALE)
    /\ output.detailedRows[2].dateFrom = Jan01
    /\ output.detailedRows[2].endValue = Some(140 * SCALE)
    /\ AnnualOf(GroupKey(output.detailedRows[1]), 2023) # Null
    /\ Val(AnnualOf(GroupKey(output.detailedRows[1]), 2023)).consumption = 80 * SCALE

ReportRowsOf(key, year) ==
    { i \in 1..Len(output.rows) :
        GroupKey(output.rows[i]) = key /\ output.rows[i].compareYear = year }

\* the row compares the consumptions of its two years
RowCompares(row, base, compare) ==
    /\ row.baseYear = row.compareYear - 1
    /\ row.baseConsumption = base /\ row.compareConsumption = compare
    /\ row.difference = compare - base
    /\ row.trend = (IF Abs(row.difference) <= VALIDATION_TOLERANCE THEN "Bez zmian"
                    ELSE IF row.difference > 0 THEN "Wzrost" ELSE "Spadek")
    /\ (base = 100 * SCALE /\ compare = 80 * SCALE) =>
          /\ row.difference = -20 * SCALE /\ row.changePercent = Some(-20 * SCALE)
          /\ row.trend = "Spadek"

\* one row per group and pair of consecutive years that both have an annual
\* consumption, and no other row
OneRowPerConsecutiveYears ==
    /\ \A key \in ReportGroups : \A year \in ReportYears :
          IF ~IsNull(AnnualOf(key, year)) /\ ~IsNull(AnnualOf(key, year - 1))
            THEN /\ Cardinality(ReportRowsOf(key, year)) = 1
                 /\ \A i \in ReportRowsOf(key, year) :
                       RowCompares(output.rows[i],
                                   Val(AnnualOf(key, year - 1)).consumption,
                                   Val(AnnualOf(key, year)).consumption)
            ELSE ReportRowsOf(key, year) = {}
    /\ \A i \in 1..Len(output.rows) :
          /\ GroupKey(output.rows[i]) \in ReportGroups
          /\ output.rows[i].compareYear \in ReportYears

\* changePercent is exactly difference / base * 100 (all in hundredths)
PercentIsExact(changePercent, difference, base) ==
    IF Abs(base) <= VALIDATION_TOLERANCE THEN IsNull(changePercent)
    ELSE /\ ~IsNull(changePercent)
         /\ (Val(changePercent) \div 100) * (base \div 100) = (difference \div 100) * 100 * 100

\* changePercent is difference / base * 100 to the nearest hundredth
PercentIsRounded(changePercent, difference, base) ==
    IF Abs(base) <= VALIDATION_TOLERANCE THEN IsNull(changePercent)
    ELSE /\ ~IsNull(changePercent)
         /\ Val(changePercent) % 100 = 0
         /\ 2 * Abs((Val(changePercent) \div 100) * (base \div 100)
                      - (difference \div 100) * 100 * 100) <= Abs(base \div 100)

\* C16 as stated: one row per group and year Y with an annual consumption for
\* Y and Y-1, and no other row; difference = consumption[Y] - consumption[Y-1];
\* changePercent is null when |base| <= 0.05 and difference / base * 100
\* otherwise; trend "Bez zmian" when |difference| <= 0.05, else by sign; for
\* 100 then 80: difference -20, changePercent -20, trend "Spadek".
YearOverYearRowsWithExactPercent ==
    phase = "yoyDone" =>
       /\ OneRowPerConsecutiveYears
       /\ \A i \in 1..Len(output.rows) :
             PercentIsExact(output.rows[i].changePercent, output.rows[i].difference,
                            output.rows[i].baseConsumption)

\* C16 amended: the same, changePercent being difference / base * 100 rounded
\* to 2 decimals.
YearOverYearRowsWithRoundedPercent ==
    phase = "yoyDone" =>
       /\ OneRowPerConsecutiveYears
       /\ \A i \in 1..Len(output.rows) :
             PercentIsRounded(output.rows[i].changePercent, output.rows[i].difference,
                              output.rows[i].baseConsumption)

\* C16 witness: 2022 with 100 and 2023 with 80 (two half years): the one row
\* shows difference -20, -20 % and "Spadek".
ReportOfHundredThenEighty ==
    /\ phase = "yoyDone"
    /\ Len(input.workbook.records) = 3
    /\ Len(output.rows) = 1
    /\ output.rows[1].baseYear = 2022 /\ output.rows[1].compareYear = 2023
    /\ output.rows[1].baseConsumption = 100 * SCALE
    /\ output.rows[1].compareConsumption = 80 * SCALE
    /\ output.rows[1].difference = -20 * SCALE
    /\ output.rows[1].changePercent = Some(-20 * SCALE)
    /\ output.rows[1].trend = "Spadek"

(***************************************************************************)
(* SpecRates: the pivot export of a workbook with one record per apartment *)
(* "5/1", "5/2", ..., each with one metric whose rate is 1, 1.2, 1.04 or   *)
(* unreadable, in one period or (rate 1.2) in a second one; the default    *)
(* columns, the rate column alone, or no rate column.                      *)
(***************************************************************************)
MaxApartments == 4

Apartment(i) == <<"5", "/", CHOOSE c \in Digits : DigitVal(c) = i>>

RatedMetric(rate) ==
    [metric |-> Woda, startValue |-> <<"0">>, endValue |-> <<"1">>,
     consumption |-> <<"1">>, rate |-> rate, total |-> <<"1">>]

RateChoices ==
    { [dateFrom |-> Jan01, dateTo |-> Jun30, rate |-> <<"1">>],
      [dateFrom |-> Jan01, dateTo |-> Jun30, rate |-> <<"1", ",", "2">>],
      [dateFrom |-> Jan01, dateTo |-> Jun30, rate |-> <<"1", ",", "0", "4">>],
      [dateFrom |-> Jan01, dateTo |-> Jun30, rate |-> <<"x">>],
      [dateFrom |-> Jul01Polish, dateTo |-> Dec31, rate |-> <<"1", ",", "2">>] }

RateRecords(choice) ==
    [i \in 1..Len(choice) |->
        [apartment |-> Apartment(i), dateFrom |-> choice[i].dateFrom,
         dateTo |-> choice[i].dateTo, metrics |-> <<RatedMetric(choice[i].rate)>>]]

RateColumnRequests ==
    { Null, Some(<<"rate", "bogus", "rate">>), Some(<<"reportedTotal", "computedTotal">>) }

RateInputs ==
    { [request  |-> [NoRequest(1) EXCEPT !.exportColumns = columns],
       workbook |-> ParsedWorkbook(<<Woda>>, RateRecords(choice))] :
      columns \in RateColumnRequests, choice \in [1..MaxApartments -> RateChoices] }

InitRates ==
    /\ SessionsIdle /\ ParserIdle
    /\ phase = "export"
    /\ input \in RateInputs
    /\ output = <<>>

SpecRates == InitRates /\ [][NextExport]_vars

ExportedColumns == ResolveExportColumns(input.request.exportColumns)

\* the rates of the filtered rows of a metric and period
RatesOf(rows, metric, periodKey) ==
    { i \in 1..Len(rows) :
        rows[i].metric = metric /\ rows[i].periodKey = periodKey /\ ~IsNull(rows[i].rate) }

TimesIn(rows, among, rate) == Cardinality({ i \in among : Val(rows[i].rate) = rate })

\* the rates no other rate of the metric and period is more frequent than
MostFrequentRates(rows, among) ==
    { Val(rows[i].rate) : i \in
        { i \in among : \A j \in among :
            TimesIn(rows, among, Val(rows[j].rate)) <= TimesIn(rows, among, Val(rows[i].rate)) } }

\* the cells of the payload that are rate cells: <<row, period, offset>>, 0-based
RateCells ==
    { <<r, q, q * Len(ExportedColumns) + ArrayIndexOf(ExportedColumns, "rate")>> :
        r \in 0..(Len(output.payload.rows) - 1), q \in 0..(Len(output.payload.periods) - 1) }

\* the rate cells of a metric and period are flagged by their distance to `dominant`
FlaggedAgainst(metric, periodKey, dominant) ==
    \A cell \in RateCells :
       (/\ output.payload.rows[cell[1] + 1].metric = metric
        /\ LabelAsKey(output.payload.periods[cell[2] + 1].label) = periodKey) =>
          (<<cell[1], cell[3]>> \in output.payload.rateOutliers
             <=> /\ ~IsNull(output.payload.rows[cell[1] + 1].cells[cell[3] + 1].value)
                 /\ Abs(Val(output.payload.rows[cell[1] + 1].cells[cell[3] + 1].value)
                          - dominant) > VALIDATION_TOLERANCE)

\* the rates 1.0, 1.0, 1.0, 1.2
OneOneOneAndOnePointTwo ==
    <<Some(SCALE), Some(SCALE), Some(SCALE), Some((12 * SCALE) \div 10)>>

RatesInOrder == [i \in 1..Len(output.detailedRows) |-> output.detailedRows[i].rate]

\* C17: with the rate column exported, for each metric and period the rate
\* cells of the pivot rows are flagged exactly when they differ by more than
\* 0.05 from one dominant rate, which is a most frequent rate among the
\* filtered rows of that metric and period; no other cell is flagged; among
\* the rates 1.0, 1.0, 1.0, 1.2 of one period only the 1.2 row is flagged.
OutliersDifferFromMostFrequentRate ==
    (phase = "exportDone" /\ InSeq(ExportedColumns, "rate")) =>
       /\ \A i \in 1..Len(output.detailedRows) :
             LET metric == output.detailedRows[i].metric
                 periodKey == output.detailedRows[i].periodKey
                 among == RatesOf(output.detailedRows, metric, periodKey)
             IN  IF among = {}
                   THEN \A cell \in RateCells :
                           LabelAsKey(output.payload.periods[cell[2] + 1].label) = periodKey
                              => <<cell[1], cell[3]>> \notin output.payload.rateOutliers
                   ELSE \E dominant \in MostFrequentRates(output.detailedRows, among) :
                           FlaggedAgainst(metric, periodKey, dominant)
       /\ output.payload.rateOutliers \subseteq { <<cell[1], cell[3]>> : cell \in RateCells }
       /\ (RatesInOrder = OneOneOneAndOnePointTwo /\ Len(output.payload.periods) = 1)
             => output.payload.rateOutliers = { <<3, ArrayIndexOf(ExportedColumns, "rate")>> }

\* C17 witness: four apartments with the rates 1.0, 1.0, 1.0 and 1.2 in one
\* period, default columns: the rate cell of the fourth row alone is flagged.
FourthRateFlagged ==
    /\ phase = "exportDone"
    /\ IsNull(input.request.exportColumns)
    /\ RatesInOrder = OneOneOneAndOnePointTwo
    /\ Len(output.payload.periods) = 1
    /\ output.payload.rateOutliers = { <<3, 5>> }

(***************************************************************************)
(* SpecFee: the pivot export of a workbook with a fee column and a water   *)
(* column and one record per apartment, in one of two periods, whose fee   *)
(* total is 10, 2.504 or unreadable.  The fee column is headed "opłata     *)
(* stała", "Opłata Stała" or "oplata stala" (which is another metric).     *)
(***************************************************************************)
MaxFeeRecords == 3

OplataStalaCapitals ==
    <<"O", "p", "lstroke", "a", "t", "a", " ", "S", "t", "a", "lstroke", "a">>
OplataStalaPlain == <<"o", "p", "l", "a", "t", "a", " ", "s", "t", "a", "l", "a">>

FeeSpellings == { OplataStala, OplataStalaCapitals }

FeeTotals == { <<"1", "0">>, <<"2", ",", "5", "0", "4">>, <<"x">> }

FeeChoices ==
    { [dateFrom |-> p[1], dateTo |-> p[2], total |-> t] :
        p \in { <<Jan01, Jun30>>, <<Jul01Polish, Dec31>> }, t \in FeeTotals }

FeeMetric(metric, total) ==
    [metric |-> metric, startValue |-> <<>>, endValue |-> <<>>, consumption |-> <<>>,
     rate |-> <<>>, total |-> total]

FeeRecords(feeName, choice) ==
    [i \in 1..Len(choice) |->
        [apartment |-> Apartment(i), dateFrom |-> choice[i].dateFrom,
         dateTo |-> choice[i].dateTo,
         metrics |-> <<FeeMetric(feeName, choice[i].total), PlainMetric(Woda)>>]]

FeeInputs ==
    { [request  |-> [NoRequest(1) EXCEPT !.exportColumns = columns],
       workbook |-> ParsedWorkbook(<<feeName, Woda>>, FeeRecords(feeName, choice))] :
      columns \in { Null, Some(<<"rate", "reportedTotal">>), Some(<<"rate">>) },
      feeName \in FeeSpellings \cup {OplataStalaPlain},
      choice \in UNION { [1..n -> FeeChoices] : n \in 1..MaxFeeRecords } }

InitFee ==
    /\ SessionsIdle /\ ParserIdle
    /\ phase = "export"
    /\ input \in FeeInputs
    /\ output = <<>>

SpecFee == InitFee /\ [][NextExport]_vars

\* the filtered rows of the fee metric, in any spelling, in a period
FeeRowsOf(rows, periodKey) ==
    SelectSeq(rows, LAMBDA row : row.metric \in FeeSpellings /\ row.periodKey = periodKey)

FeeTotalsOf(feeRows) ==
    [i \in 1..Len(feeRows) |-> OrZero(feeRows[i].reportedTotal)]

HasFeeTotal(feeRows) == \E i \in 1..Len(feeRows) : ~IsNull(feeRows[i].reportedTotal)

ExportedPeriodKeys == { output.detailedRows[i].periodKey : i \in 1..Len(output.detailedRows) }

\* the rollup: an entry per period with a fee row whose total parsed, the sum
\* of the totals of the fee rows of the period
RollupIsSumOfFeeTotals ==
    /\ \A periodKey \in ExportedPeriodKeys :
          IF HasFeeTotal(FeeRowsOf(output.detailedRows, periodKey))
            THEN MapGet(output.payload.fixedFeeSummary, periodKey)
                   = Some(SumSeq(FeeTotalsOf(FeeRowsOf(output.detailedRows, periodKey))))
            ELSE ~MapHas(output.payload.fixedFeeSummary, periodKey)
    /\ \A i \in 1..Len(output.payload.fixedFeeSummary) :
          /\ output.payload.fixedFeeSummary[i].key \in ExportedPeriodKeys
          /\ \A j \in 1..Len(output.payload.fixedFeeSummary) :
                output.payload.fixedFeeSummary[i].key = output.payload.fixedFeeSummary[j].key
                   => i = j

\* the place of the reported-total cell of a period in the fee row, 1-based
ReportedTotalPlace(periodKey) ==
    3 + ArrayIndexOf([q \in 1..Len(output.payload.periods) |->
                        LabelAsKey(output.payload.periods[q].label)], periodKey)
          * Len(ExportedColumns)
      + ArrayIndexOf(ExportedColumns, "reportedTotal") + 1

\* the fee row shows the sums as they are
FeeRowShowsSums ==
    \A i \in 1..Len(output.payload.fixedFeeSummary) :
       /\ ~IsNull(output.fixedFeeRow)
       /\ Val(output.fixedFeeRow)[ReportedTotalPlace(output.payload.fixedFeeSummary[i].key)]
            = Some(output.payload.fixedFeeSummary[i].value)

\* the fee row shows the sums rounded to 2 decimals (half up)
FeeRowShowsRoundedSums ==
    \A i \in 1..Len(output.payload.fixedFeeSummary) :
       /\ ~IsNull(output.fixedFeeRow)
       /\ ~IsNull(Val(output.fixedFeeRow)[ReportedTotalPlace(output.payload.fixedFeeSummary[i].key)])
       /\ IsRounded(Val(Val(output.fixedFeeRow)[ReportedTotalPlace(
                          output.payload.fixedFeeSummary[i].key)]),
                    output.payload.fixedFeeSummary[i].value)

\* C18 as stated: the fixed-fee rollup maps each period key to the sum of the
\* reported totals of all filtered rows, over all apartments, whose metric is
\* "opłata stała" ignoring case; a period has an entry only if such a row has
\* a parsable reported total; the sheet shows each sum in the reported-total
\* column of the period's block of the summary row.
FeeRollupShownAsItIs ==
    phase = "exportDone" =>
       /\ RollupIsSumOfFeeTotals
       /\ InSeq(ExportedColumns, "reportedTotal") => FeeRowShowsSums

\* C18 amended: the same, the sheet showing each sum rounded to 2 decimals,
\* when the reported-total column is exported.
FeeRollupShownRounded ==
    phase = "exportDone" =>
       /\ RollupIsSumOfFeeTotals
       /\ InSeq(ExportedColumns, "reportedTotal") => FeeRowShowsRoundedSums

\* C18 witness: three apartments under the header "Opłata Stała", fees 10 and
\* 10 in the first half year and 2.504 in the second: the rollup holds 20 and
\* 2.504 and the summary row shows 20 and 2.5 in the reported-total cells.
FeeRowOfTwoPeriods ==
    /\ phase = "exportDone"
    /\ IsNull(input.request.exportColumns)
    /\ input.workbook.headers[1] = OplataStalaCapitals
    /\ Len(input.workbook.records) = 3
    /\ Len(output.payload.fixedFeeSummary) = 2
    /\ output.payload.fixedFeeSummary[1].value = 20 * SCALE
    /\ output.payload.fixedFeeSummary[2].value = 25040
    /\ ~IsNull(output.fixedFeeRow)
    /\ Val(output.fixedFeeRow)[3 + 7] = Some(20 * SCALE)
    /\ Val(output.fixedFeeRow)[3 + 9 + 7] = Some(25000)

(***************************************************************************)
(* SpecOrder: the pivot groups of three apartment labels of one address    *)
(* and one metric are sorted (lines 1205-1218) and every two of the labels *)
(* are compared (compareApartments).  The labels are those of the example, *)
(* plain numbers, a label without a number and a label that starts with    *)
(* the full-width digit one, which collates as a digit and is not a \d.    *)
(***************************************************************************)
Label2A == <<"2", "A">>
Label10A == <<"1", "0", "A">>
Label1B == <<"1", "B">>
Label2 == <<"2">>
Label10 == <<"1", "0">>
LabelWide15 == <<"FULLWIDTH1", "5">>
LabelA == <<"A">>

ApartmentLabels == { Label2A, Label10A, Label1B, Label2, Label10, LabelWide15, LabelA }

OrderInputs == { [labels |-> <<a, b, c>>] : a, b, c \in ApartmentLabels }

InitOrder ==
    /\ SessionsIdle /\ ParserIdle
    /\ phase = "order"
    /\ input \in OrderInputs
    /\ output = <<>>

GroupOfLabel(label) == [address |-> <<"5">>, apartment |-> label, metric |-> Woda]

OrderOf(labels) ==
    [groups  |-> SortPivotGroups([i \in 1..Len(labels) |-> GroupOfLabel(labels[i])]),
     compare |-> [i \in 1..Len(labels), j \in 1..Len(labels) |->
                    CompareApartments(labels[i], labels[j])]]

OrderLabels ==
    /\ phase = "order"
    /\ output' = OrderOf(input.labels)
    /\ phase' = "orderDone"
    /\ UNCHANGED <<store, calls, archive, resp, created, input, prow, precords, tmpfiles>>

NextOrder == OrderLabels

SpecOrder == InitOrder /\ [][NextOrder]_vars

SortedLabels == [i \in 1..Len(output.groups) |-> output.groups[i].apartment]

ExampleIsOrdered ==
    input.labels = <<Label2A, Label10A, Label1B>>
       => SortedLabels = <<Label1B, Label2A, Label10A>>

CompareIsAntisymmetric ==
    \A i, j \in 1..3 : Sign(output.compare[i, j]) = - Sign(output.compare[j, i])

CompareIsTransitive ==
    \A i, j, k \in 1..3 :
       output.compare[i, j] <= 0 /\ output.compare[j, k] <= 0 => output.compare[i, k] <= 0

\* C19: rows are ordered by address, then by apartment under the
\* numeric-aware comparison (leading integer as a number, the remainder as
\* text), then by metric (and year-over-year rows last by compare year);
\* ["2A","10A","1B"] is ordered ["1B","2A","10A"], and the comparison is
\* antisymmetric and transitive over all apartment labels.
ApartmentComparisonIsConsistentOrder ==
    phase = "orderDone" =>
       /\ ExampleIsOrdered
       /\ CompareIsAntisymmetric
       /\ CompareIsTransitive

\* the example alone, and the consistency of the comparison over the
\* labels that start with an ASCII digit or with a letter
OrderOfPlainLabels ==
    phase = "orderDone" =>
       /\ ExampleIsOrdered
       /\ CompareIsAntisymmetric
       /\ (\A i \in 1..3 : input.labels[i] # LabelWide15) => CompareIsTransitive

\* the cycle 2 < 10 < (full-width 1)5 < 2
CycleOfThreeLabels ==
    /\ phase = "orderDone"
    /\ input.labels = <<Label2, Label10, LabelWide15>>
    /\ output.compare[1, 2] < 0
    /\ output.compare[2, 3] < 0
    /\ output.compare[3, 1] < 0

\* pivot rows come in the order address, apartment, metric
PivotRowsInOrder ==
    phase = "exportDone" =>
       \A i \in 1..Len(output.payload.rows) : \A j \in 1..Len(output.payload.rows) :
          i < j =>
            FirstDifference(
               TextCompare(output.payload.rows[i].address, output.payload.rows[j].address),
               CompareApartments(output.payload.rows[i].apartment,
                                 output.payload.rows[j].apartment),
               TextCompare(output.payload.rows[i].metric,
                           output.payload.rows[j].metric)) <= 0

\* year-over-year rows come in the order address, apartment, metric, compare year
YearOverYearRowsInOrder ==
    phase = "yoyDone" =>
       \A i \in 1..Len(output.rows) : \A j \in 1..Len(output.rows) :
          i < j => CompareYearOverYearRows(output.rows[i], output.rows[j]) <= 0

(***************************************************************************)
(* SpecPivot: the pivot export of a workbook of up to three records, two   *)
(* of the first apartment and one of the second.  A record's period is one *)
(* of five: two that start on the same day, two that are the same period   *)
(* written in two ways, and one whose start is not a date of the calendar. *)
(***************************************************************************)
MaxPivotRecords == 3

Jul01 == <<"2", "0", "2", "3", "-", "0", "7", "-", "0", "1">>

PivotPeriods ==
    { <<Jan01, Jun30>>, <<Jan01, Dec31>>, <<Jul01Polish, Dec31>>, <<Jul01, Dec31>>,
      <<Feb31Iso, Jun30Polish>> }

PivotRecords(choice) ==
    [i \in 1..Len(choice) |->
        [apartment |-> Apartment((i + 1) \div 2), dateFrom |-> choice[i][1],
         dateTo |-> choice[i][2], metrics |-> <<PlainMetric(Woda)>>]]

PivotInputs ==
    { [request  |-> [NoRequest(1) EXCEPT !.exportColumns = columns],
       workbook |-> ParsedWorkbook(<<Woda>>, SortRecords(PivotRecords(choice)))] :
      columns \in { Null, Some(<<"rate", "consumptionStatus">>) },
      choice \in UNION { [1..n -> PivotPeriods] : n \in 1..MaxPivotRecords } }

InitPivot ==
    /\ SessionsIdle /\ ParserIdle
    /\ phase = "export"
    /\ input \in PivotInputs
    /\ output = <<>>

SpecPivot == InitPivot /\ [][NextExport]_vars

\* the (dateFrom, dateTo) pairs of the filtered rows
DatePairs ==
    { <<output.detailedRows[i].dateFrom, output.detailedRows[i].dateTo>> :
        i \in 1..Len(output.detailedRows) }

\* a date as year, month and day in one number
DateOrder(date) == (IsoYear(date) * 100 + IsoMonth(date)) * 100 + IsoDay(date)

PairBefore(p, q) ==
    \/ DateOrder(p[1]) < DateOrder(q[1])
    \/ DateOrder(p[1]) = DateOrder(q[1]) /\ DateOrder(p[2]) < DateOrder(q[2])

PairOfPeriod(q) ==
    CHOOSE p \in DatePairs : PeriodLabel(p[1], p[2]) = output.payload.periods[q].label

PeriodsAreDistinctPairsInOrder ==
    /\ Len(output.payload.periods) = Cardinality(DatePairs)
    /\ \A p \in DatePairs : \E q \in 1..Len(output.payload.periods) :
          output.payload.periods[q].label = PeriodLabel(p[1], p[2])
    /\ \A q \in 1..Len(output.payload.periods) :
          /\ \E p \in DatePairs : PeriodLabel(p[1], p[2]) = output.payload.periods[q].label
          /\ output.payload.periods[q].columnCount = Len(ExportedColumns)
    /\ \A q, r \in 1..Len(output.payload.periods) :
          q < r => PairBefore(PairOfPeriod(q), PairOfPeriod(r))

\* the filtered rows of the group of a pivot row in the period of a pair
RowsOfGroupIn(pivotRow, pair) ==
    SelectSeq(output.detailedRows,
              LAMBDA row : /\ row.address = pivotRow.address
                           /\ row.apartment = pivotRow.apartment
                           /\ row.metric = pivotRow.metric
                           /\ <<row.dateFrom, row.dateTo>> = pair)

CellAt(pivotRow, q, c) == pivotRow.cells[(q - 1) * Len(ExportedColumns) + c]

CellsOfPeriod(pivotRow, q, rowsOfPeriod) ==
    \A c \in 1..Len(ExportedColumns) :
       IF Len(rowsOfPeriod) = 0
         THEN CellAt(pivotRow, q, c) = [value |-> Null, style |-> Null]
         ELSE ExportedColumns[c] = "rate"
                => /\ CellAt(pivotRow, q, c).value = rowsOfPeriod[Len(rowsOfPeriod)].rate
                   /\ ~IsNull(CellAt(pivotRow, q, c).value)

PivotRowsHaveCellsPerPeriod ==
    \A i \in 1..Len(output.payload.rows) :
       /\ Len(output.payload.rows[i].cells)
            = Len(output.payload.periods) * Len(ExportedColumns)
       /\ \A q \in 1..Len(output.payload.periods) :
             CellsOfPeriod(output.payload.rows[i], q,
                           RowsOfGroupIn(output.payload.rows[i], PairOfPeriod(q)))

\* C20: in the pivot payload the periods are exactly the distinct (dateFrom,
\* dateTo) pairs of the filtered rows, each once, sorted by start date then
\* end date; every pivot row has periods x exportColumns cells in period
\* order, and where the row's group has no data in a period all cells of the
\* period have value null and style null.
PeriodsAndCellsOfPivot ==
    phase = "exportDone" =>
       /\ PeriodsAreDistinctPairsInOrder
       /\ PivotRowsHaveCellsPerPeriod

\* C20 witness: the first apartment read from July and for the whole year, the
\* second for the first half year: three periods in the order of their dates,
\* and the row of the second apartment empty after its first period.
PivotOfThreePeriods ==
    /\ phase = "exportDone"
    /\ IsNull(input.request.exportColumns)
    /\ Len(output.payload.periods) = 3
    /\ output.payload.periods[1].label = PeriodLabel(Jan01, Jun30)
    /\ output.payload.periods[2].label = PeriodLabel(Jan01, Dec31)
    /\ output.payload.periods[3].label = PeriodLabel(Jul01, Dec31)
    /\ Len(output.payload.rows) = 2
    /\ Len(output.payload.rows[2].cells) = 27
    /\ ~IsNull(output.payload.rows[2].cells[1].value)
    /\ \A k \in 10..27 : output.payload.rows[2].cells[k] = [value |-> Null, style |-> Null]
    /\ \A k \in 1..9 : output.payload.rows[1].cells[k] = [value |-> Null, style |-> Null]

(***************************************************************************)
(* SpecSummary: the summary of a workbook of two apartments with a water   *)
(* and a power column, asked for as the request says and asked for again   *)
(* with validation enabled.  The water consumption is 1, 0 or missing, the *)
(* water total 1 (valid), 2.5 (invalid) or missing.                        *)
(***************************************************************************)
MaxSummaryRecords == 2

SummaryChoices ==
    { [consumption |-> c, total |-> t] :
        c \in { <<"1">>, <<"0">>, <<>> }, t \in { <<"1">>, <<"2", ",", "5">>, <<>> } }

SummaryMetric(choice) ==
    [metric |-> Woda, startValue |-> <<"0">>, endValue |-> <<"1">>,
     consumption |-> choice.consumption, rate |-> <<"1">>, total |-> choice.total]

SummaryRecords(choice) ==
    [i \in 1..Len(choice) |->
        [apartment |-> Apartment(i), dateFrom |-> Jan01, dateTo |-> Jun30,
         metrics |-> <<SummaryMetric(choice[i]), PlainMetric(Prad)>>]]

SummaryInputs ==
    { [request  |-> [NoRequest(1) EXCEPT !.includeValidation = validation,
                                         !.includeOnlyMismatches = mismatches],
       workbook |-> ParsedWorkbook(<<Woda, Prad>>, SummaryRecords(choice))] :
      validation \in { Null, Some(TRUE), Some(FALSE) },
      mismatches \in { Null, Some(TRUE) },
      choice \in [1..MaxSummaryRecords -> SummaryChoices] }

InitSummary ==
    /\ SessionsIdle /\ ParserIdle
    /\ phase = "summary"
    /\ input \in SummaryInputs
    /\ output = <<>>

SummarizeBothWays ==
    /\ phase = "summary"
    /\ output' = [summary   |-> BuildSummaryData(input.request, input.workbook),
                  validated |-> BuildSummaryData(
                                   [input.request EXCEPT !.includeValidation = Some(TRUE)],
                                   input.workbook)]
    /\ phase' = "summaryDone"
    /\ UNCHANGED <<store, calls, archive, resp, created, input, prow, precords, tmpfiles>>

NextSummary == SummarizeBothWays

SpecSummary == InitSummary /\ [][NextSummary]_vars

ValidationFieldsAreNull ==
    /\ \A i \in 1..Len(output.summary.rows) :
          /\ IsNull(output.summary.rows[i].computedTotal)
          /\ IsNull(output.summary.rows[i].difference)
          /\ IsNull(output.summary.rows[i].isValid)
    /\ \A k \in 1..Len(output.summary.totalsByMetric) :
          /\ IsNull(output.summary.totalsByMetric[k].computedTotal)
          /\ IsNull(output.summary.totalsByMetric[k].difference)
    /\ output.summary.stats.validRows = 0
    /\ output.summary.stats.invalidRows = 0

ReportedSumsAsValidated ==
    /\ output.summary.stats.rowsCount = output.validated.stats.rowsCount
    /\ Len(output.summary.rows) = Len(output.validated.rows)
    /\ Len(output.summary.totalsByMetric) = Len(output.validated.totalsByMetric)
    /\ \A k \in 1..Len(output.summary.totalsByMetric) :
          /\ output.summary.totalsByMetric[k].metric = output.validated.totalsByMetric[k].metric
          /\ output.summary.totalsByMetric[k].rowCount
               = output.validated.totalsByMetric[k].rowCount
          /\ output.summary.totalsByMetric[k].totalConsumption
               = output.validated.totalsByMetric[k].totalConsumption
          /\ output.summary.totalsByMetric[k].reportedTotal
               = output.validated.totalsByMetric[k].reportedTotal

\* C21: when a summary request sets includeValidation to false, every row has
\* computedTotal, difference and isValid null, every totalsByMetric entry has
\* computedTotal and difference null, validRows and invalidRows are 0, and
\* the row counts and the summed reported consumption and total are those of
\* the same request with validation enabled.
ValidationOffHidesOnlyValidation ==
    phase = "summaryDone" /\ input.request.includeValidation = Some(FALSE) =>
       /\ ValidationFieldsAreNull
       /\ ReportedSumsAsValidated

\* C21 witness: validation is off for a valid and an invalid water row, which
\* the validated summary counts as one valid and one invalid row beside the
\* two valid power rows.
ValidationOffOverValidAndInvalidRow ==
    /\ phase = "summaryDone"
    /\ input.request.includeValidation = Some(FALSE)
    /\ output.validated.stats.validRows = 3
    /\ output.validated.stats.invalidRows = 1
    /\ output.summary.stats.rowsCount = 4
    /\ output.summary.stats.validRows = 0
    /\ output.summary.totalsByMetric[1].reportedTotal = 35000
    /\ ~IsNull(output.validated.totalsByMetric[1].difference)

(***************************************************************************)
(* SpecNumber: parsePolishNumber on every text of up to MaxNumberLen       *)
(* characters over digits, the two marks, the space, the sign and a        *)
(* letter, and on the three texts of the examples.                         *)
(***************************************************************************)
MaxNumberLen == 4

NumberChars == { "0", "1", "5", ",", ".", " ", "-", "x" }

Text1234c56 == <<"1", " ", "2", "3", "4", ",", "5", "6">>
Text12p345c67 == <<"1", "2", ".", "3", "4", "5", ",", "6", "7">>
Text12p5 == <<"1", "2", ".", "5">>

NumberTexts ==
    UNION { [1..n -> NumberChars] : n \in 0..MaxNumberLen }
       \cup { Text1234c56, Text12p345c67, Text12p5 }

InitNumber ==
    /\ SessionsIdle /\ ParserIdle
    /\ phase = "number"
    /\ input \in { [rawValue |-> text] : text \in NumberTexts }
    /\ output = <<>>

ParseNumber ==
    /\ phase = "number"
    /\ output' = [parsed   |-> ParsePolishNumber(input.rawValue),
                  unspaced |-> ParsePolishNumber(RemoveAll(input.rawValue, " ")),
                  undotted |-> ParsePolishNumber(RemoveAll(input.rawValue, "."))]
    /\ phase' = "numberDone"
    /\ UNCHANGED <<store, calls, archive, resp, created, input, prow, precords, tmpfiles>>

NextNumber == ParseNumber

SpecNumber == InitNumber /\ [][NextNumber]_vars

CountOf(text, chars) == Cardinality({ i \in 1..Len(text) : text[i] \in chars })

\* the text without spaces and, where it holds both marks, without points
ReadAsPolish(text) ==
    IF CountOf(text, {","}) > 0 /\ CountOf(text, {"."}) > 0
      THEN SelectSeq(text, LAMBDA c : c \notin {" ", "."})
      ELSE SelectSeq(text, LAMBDA c : c # " ")

Unsigned(text) == IF Len(text) > 0 /\ text[1] = "-" THEN Tail(text) ELSE text

\* digits with at most one decimal mark, after an optional sign
LooksLikeNumber(text) ==
    /\ CountOf(Unsigned(text), Digits \cup {",", "."}) = Len(Unsigned(text))
    /\ CountOf(Unsigned(text), {",", "."}) <= 1
    /\ CountOf(Unsigned(text), Digits) >= 1

OneDigitEachSide ==
    \A a, b \in Digits : \A mark \in {",", "."} :
       input.rawValue = <<a, mark, b>>
          => output.parsed = Some(DigitVal(a) * SCALE + DigitVal(b) * (SCALE \div 10))

MaxStatusRecords == 2

StatusChoices ==
    { [consumption |-> c, total |-> t] :
        c \in { <<"1">>, <<"0">>, <<>> },
        t \in { <<"1">>, <<"1", ",", "0", "3">>, <<"1", ",", "0", "5", "4">>, <<"2">>, <<>> } }

StatusPeriod(n, i) ==
    IF n = 1 THEN <<Jan01, Dec31>>
    ELSE IF i = 1 THEN <<Jan01, Jun30>>
    ELSE IF i = 2 THEN <<Jul01Polish, Dec31>>
    ELSE <<Jul11, Dec31>>

StatusRecords(choice) ==
    [i \in 1..Len(choice) |->
        [apartment |-> Lokal1, dateFrom |-> StatusPeriod(Len(choice), i)[1],
         dateTo |-> StatusPeriod(Len(choice), i)[2],
         metrics |-> << [metric |-> Woda, startValue |-> <<"0">>, endValue |-> <<"1">>,
                         consumption |-> choice[i].consumption, rate |-> <<"1">>,
                         total |-> choice[i].total] >>]]

StatusInputs ==
    { [request  |-> NoRequest(1),
       workbook |-> ParsedWorkbook(<<Woda>>, SortRecords(StatusRecords(choice)))] :
      choice \in UNION { [1..n -> StatusChoices] : n \in 1..MaxStatusRecords } }

InitStatus ==
    /\ SessionsIdle /\ ParserIdle
    /\ phase = "export"
    /\ input \in StatusInputs
    /\ output = <<>>

SpecStatus == InitStatus /\ [][NextExport]_vars

\* the filtered rows of the group and year of a yearly row
RowsOfYearlyRow(yearlyRow) ==
    SelectSeq(output.detailedRows,
              LAMBDA row : /\ GroupKey(row) = GroupKey(yearlyRow)
                           /\ GetYearFromIsoDate(row.dateFrom) = Some(yearlyRow.year)
                           /\ GetYearFromIsoDate(row.dateTo) = Some(yearlyRow.year))

NoRowIsSuspicious(rows) ==
    \A i \in 1..Len(rows) :
       /\ rows[i].consumptionIsValid # Some(FALSE)
       /\ rows[i].totalIsValid # Some(FALSE)
       /\ IsNull(rows[i].consumptionReported) \/ Val(rows[i].consumptionReported) > 0

SumOfField(rows, field) == SumSeq([i \in 1..Len(rows) |-> OrZero(rows[i][field])])

TotalsAgree(rows) ==
    Abs(SumOfField(rows, "reportedTotal") - SumOfField(rows, "computedTotal"))
       <= VALIDATION_TOLERANCE

RoundedTotalsAgree(rows) ==
    Abs(RoundTo2(SumOfField(rows, "reportedTotal"), 1)
          - RoundTo2(SumOfField(rows, "computedTotal"), 1)) <= VALIDATION_TOLERANCE

StatusIsOkOrCheck ==
    \A y \in 1..Len(output.payload.yearlyRows) :
       output.payload.yearlyRows[y].yearlyStatus \in { "OK", "Wymaga sprawdzenia" }

\* C24: an annual rollup row has status "OK" if and only if none of the
\* group's rows of that year has consumptionIsValid false or totalIsValid
\* false, none has a reported consumption <= 0, and |summed reported total -
\* summed computed total| <= 0.05; otherwise it is "Wymaga sprawdzenia".
AnnualStatusOkIffNoIssue ==
    phase = "exportDone" =>
       /\ StatusIsOkOrCheck
       /\ \A y \in 1..Len(output.payload.yearlyRows) :
             output.payload.yearlyRows[y].yearlyStatus = "OK"
                <=> /\ NoRowIsSuspicious(RowsOfYearlyRow(output.payload.yearlyRows[y]))
                    /\ TotalsAgree(RowsOfYearlyRow(output.payload.yearlyRows[y]))

\* the same with the two sums rounded to 2 decimals before they are compared
AnnualStatusOkIffNoIssueOnRoundedSums ==
    phase = "exportDone" =>
       /\ StatusIsOkOrCheck
       /\ \A y \in 1..Len(output.payload.yearlyRows) :
             output.payload.yearlyRows[y].yearlyStatus = "OK"
                <=> /\ NoRowIsSuspicious(RowsOfYearlyRow(output.payload.yearlyRows[y]))
                    /\ RoundedTotalsAgree(RowsOfYearlyRow(output.payload.yearlyRows[y]))

\* one period for the year with consumption 1, rate 1 and total 1.054: the
\* sums differ by 0.054 and the status is "OK"
AnnualStatusOkBeyondTolerance ==
    /\ phase = "exportDone"
    /\ Len(output.detailedRows) = 1
    /\ output.detailedRows[1].reportedTotal = Some(10540)
    /\ output.detailedRows[1].computedTotal = Some(SCALE)
    /\ Len(output.payload.yearlyRows) = 1
    /\ output.payload.yearlyRows[1].yearlyStatus = "OK"

\* two valid rows whose totals are 0.03 over each: the year needs checking
AnnualStatusOfSummedMismatch ==
    /\ phase = "exportDone"
    /\ Len(output.detailedRows) = 2
    /\ NoRowIsSuspicious(output.detailedRows)
    /\ Len(output.payload.yearlyRows) = 1
    /\ output.payload.yearlyRows[1].difference = 600
    /\ output.payload.yearlyRows[1].yearlyStatus = "Wymaga sprawdzenia"

(***************************************************************************)
(* SpecCells: the pivot export of one record of one metric, whose end      *)
(* reading is 1, 0 or unreadable (the start is 0), whose reported          *)
(* consumption is 1, 0, -1, 2 or missing and whose reported total is 1, 0, *)
(* 5 or missing (the rate is 1), with the default columns and with the two *)
(* status columns alone.                                                   *)
(***************************************************************************)
CellRecords ==
    { << [apartment |-> Lokal1, dateFrom |-> Jan01, dateTo |-> Jun30,
          metrics |-> << [metric |-> Woda, startValue |-> <<"0">>, endValue |-> ev,
                          consumption |-> cv, rate |-> <<"1">>, total |-> tv] >>] >> :
        ev \in { <<"1">>, <<"0">>, <<"x">> },
        cv \in { <<"1">>, <<"0">>, <<"-", "1">>, <<"2">>, <<>> },
        tv \in { <<"1">>, <<"0">>, <<"5">>, <<>> } }

CellInputs ==
    { [request  |-> [NoRequest(1) EXCEPT !.exportColumns = columns],
       workbook |-> ParsedWorkbook(<<Woda>>, records)] :
      columns \in { Null, Some(<<"totalStatus", "consumptionStatus">>) },
      records \in CellRecords }

InitCells ==
    /\ SessionsIdle /\ ParserIdle
    /\ phase = "export"
    /\ input \in CellInputs
    /\ output = <<>>

SpecCells == InitCells /\ [][NextExport]_vars

\* the tag of a validity flag
TagOfFlag(flag) ==
    IF flag = Some(TRUE) THEN Some("ok")
    ELSE IF flag = Some(FALSE) THEN Some("error")
    ELSE Some("warning")

\* the cell of a column in the one period of the one pivot row
CellOfColumn(columnKey) ==
    output.payload.rows[1].cells[ArrayIndexOf(ExportedColumns, columnKey) + 1]

OneRowWithData ==
    /\ phase = "exportDone"
    /\ Len(output.detailedRows) = 1
    /\ Len(output.payload.rows) = 1
    /\ Len(output.payload.periods) = 1

TotalStatusTaggedByFlag ==
    CellOfColumn("totalStatus").style = TagOfFlag(output.detailedRows[1].totalIsValid)

\* C25 as stated: in both pivot status columns (consumption status and total
\* status) the cell of a row with data is tagged ok when the corresponding
\* validity flag is true, error when it is false, and warning when it is null.
StatusCellsTaggedByFlags ==
    OneRowWithData =>
       /\ TotalStatusTaggedByFlag
       /\ CellOfColumn("consumptionStatus").style
            = TagOfFlag(output.detailedRows[1].consumptionIsValid)

\* C25 amended: the total status cell is tagged by totalIsValid; the
\* consumption status cell is tagged negative when the reported consumption
\* is below 0 and zero when it is exactly 0, and by consumptionIsValid
\* otherwise.
StatusCellsTaggedByFlagsAfterSign ==
    OneRowWithData =>
       /\ TotalStatusTaggedByFlag
       /\ CellOfColumn("consumptionStatus").style
            = IF IsNull(output.detailedRows[1].consumptionReported)
                THEN TagOfFlag(output.detailedRows[1].consumptionIsValid)
              ELSE IF Val(output.detailedRows[1].consumptionReported) < 0
                THEN Some("negative")
              ELSE IF Val(output.detailedRows[1].consumptionReported) = 0
                THEN Some("zero")
              ELSE TagOfFlag(output.detailedRows[1].consumptionIsValid)

\* C25 witness: readings 0 and 0 with a reported consumption of 0: the
\* consumption is valid and its status cell is tagged zero, while the total
\* status cell is tagged by its flag.
ValidZeroConsumptionTaggedZero ==
    /\ OneRowWithData
    /\ output.detailedRows[1].consumptionIsValid = Some(TRUE)
    /\ output.detailedRows[1].consumptionReported = Some(0)
    /\ CellOfColumn("consumptionStatus") = [value |-> Some("Zero"), style |-> Some("zero")]
    /\ output.detailedRows[1].totalIsValid = Some(FALSE)
    /\ CellOfColumn("totalStatus").style = Some("error")

(***************************************************************************)
(* SpecMerge: mergeParsedWorkbooks on the workbooks of a batch.            *)
(***************************************************************************)
MaxWorkbooks == 2
MaxRecords == 2

SeqsUpTo(S, n) == UNION { [1..k -> S] : k \in 0..n }

MergeHeaderRows == { <<Woda>>, <<Woda, Prad>>, <<Prad, Prad>> }

MergePeriods ==
    { [apartment |-> Lokal1, dateFrom |-> Jan01, dateTo |-> Jun30],
      [apartment |-> Lokal2, dateFrom |-> Jul01Polish, dateTo |-> Dec31] }

\* the record a parsed file holds at `position`: its start readings carry the
\* position, so two blocks of one apartment and period stay distinguishable
FileRecord(period, headers, position) ==
    [apartment |-> period.apartment, dateFrom |-> period.dateFrom, dateTo |-> period.dateTo,
     metrics |-> [i \in 1..Len(headers) |->
        [metric |-> headers[i], startValue |-> IndexText(position),
         endValue |-> IndexText(position + i), consumption |-> IndexText(i),
         rate |-> <<"1">>, total |-> IndexText(i)]]]

MergeWorkbooks ==
    { ParsedWorkbook(h, [i \in 1..Len(ps) |-> FileRecord(ps[i], h, i)]) :
        h \in MergeHeaderRows, ps \in SeqsUpTo(MergePeriods, MaxRecords) }

InitMerge ==
    /\ SessionsIdle /\ ParserIdle
    /\ phase = "merge"
    /\ input \in SeqsUpTo(MergeWorkbooks, MaxWorkbooks)
    /\ output = <<>>

Merge ==
    /\ phase = "merge"
    /\ Len(input) > 0
    /\ output' = MergeParsedWorkbooks(input)
    /\ phase' = "merged"
    /\ UNCHANGED <<tmpfiles, store, calls, archive, resp, created, input, prow, precords>>

\* "No parsed workbook data available"
MergeRejects ==
    /\ phase = "merge"
    /\ Len(input) = 0
    /\ phase' = "mergeFailed"
    /\ UNCHANGED <<tmpfiles, store, calls, archive, resp, created, input, output, prow, precords>>

NextMerge == Merge \/ MergeRejects

SpecMerge == InitMerge /\ [][NextMerge]_vars


PeriodKeyText(record) ==
    record.apartment \o <<"|">> \o record.dateFrom \o <<"|">> \o record.dateTo

KeysOfRecords(records) == { PeriodKeyText(records[i]) : i \in 1..Len(records) }

\* C8 as stated: the merged record count is the sum of the record counts of the
\* input workbooks.
MergeKeepsEveryRecord ==
    phase = "merged" =>
      Len(output.records) = SumSeq([i \in 1..Len(input) |-> Len(input[i].records)])

\* C8 as amended: for every apartment|dateFrom|dateTo key the output holds one
\* record per input workbook that has a record of that key (nothing is dropped
\* across files), each the aligned last record of that key in its workbook, so
\* the merged count is the sum over the workbooks of their distinct keys.
MergeKeepsOneRecordPerFileAndKey ==
    phase = "merged" =>
      /\ Len(output.records) =
           SumSeq([i \in 1..Len(input) |-> Cardinality(KeysOfRecords(input[i].records))])
      /\ \A k \in UNION { KeysOfRecords(input[i].records) : i \in 1..Len(input) } :
           Cardinality({ j \in 1..Len(output.records) : PeriodKeyText(output.records[j]) = k })
             = Cardinality({ i \in 1..Len(input) : k \in KeysOfRecords(input[i].records) })
      /\ \A i \in 1..Len(input) : \A k \in KeysOfRecords(input[i].records) :
           LET hits == { n \in 1..Len(input[i].records) : PeriodKeyText(input[i].records[n]) = k }
               last == input[i].records[CHOOSE n \in hits : \A m \in hits : m <= n]
           IN  \E j \in 1..Len(output.records) :
                 /\ PeriodKeyText(output.records[j]) = k
                 /\ \A c \in 1..Len(last.metrics) :
                      InSeq(output.records[j].metrics, last.metrics[c])
                      \/ \E d \in (c + 1)..Len(last.metrics) :
                           last.metrics[d].metric = last.metrics[c].metric

\* C8 witness: two files hold a record of the same apartment and period, one of
\* them twice, and the merge has run.
MergeOfSharedAndRepeatedKey ==
    /\ phase = "merged"
    /\ Len(input) = 2
    /\ \E k \in KeysOfRecords(input[1].records) :
         /\ k \in KeysOfRecords(input[2].records)
         /\ Cardinality({ n \in 1..Len(input[1].records) :
                            PeriodKeyText(input[1].records[n]) = k }) = 2
         /\ Cardinality({ j \in 1..Len(output.records) :
                            PeriodKeyText(output.records[j]) = k }) = 2

(***************************************************************************)
(* SpecParse: parseWorksheetBlocks, one loop iteration per step.           *)
(***************************************************************************)
MaxRows == 6
MaxBlocks == 2

\* a data row: its apartment cell, its period-start cell, and a metric cell that
\* carries the row number
RowKinds == { "full", "apartmentOnly", "dateOnly", "blank" }

SheetRow(kind, r) ==
    << IF kind \in {"full", "apartmentOnly"} THEN Lokal1
       ELSE IF kind = "dateOnly" THEN <<" ">> ELSE <<>>,
       IF kind \in {"full", "dateOnly"} THEN Jan01 ELSE <<>>,
       Pad2(r) >>

HeaderRow == << <<"L">>, <<"D">>, Woda >>

SheetOfKinds(kinds) ==
    [readable |-> TRUE,
     rows |-> <<HeaderRow>> \o [r \in 1..Len(kinds) |-> SheetRow(kinds[r], r)]]

\* N contiguous blocks: a full row, then four rows the scan never looks at
BlockKinds == { <<"full">> \o inner : inner \in [1..4 -> {"dateOnly", "full"}] }

ParseSheets ==
    { SheetOfKinds(kinds) : kinds \in SeqsUpTo(RowKinds, MaxRows) }
    \cup { SheetOfKinds(Flatten(blocks)) : blocks \in SeqsUpTo(BlockKinds, MaxBlocks) }
    \cup { [readable |-> TRUE, rows |-> <<>>],
           [readable |-> TRUE, rows |-> << <<<<"L">>, <<"D">>>>, SheetRow("full", 1) >>] }

InitParse ==
    /\ SessionsIdle
    /\ phase = "parseStart"
    /\ input \in ParseSheets
    /\ output = <<>>
    /\ prow = 0
    /\ precords = <<>>

\* lines 2125-2145
ParseBegin ==
    /\ phase = "parseStart"
    /\ IsNull(ParseRejects(input))
    /\ phase' = "parsing"
    /\ prow' = 1
    /\ UNCHANGED <<tmpfiles, store, calls, archive, resp, created, input, output, precords>>

ParseThrows ==
    /\ phase = "parseStart"
    /\ ~IsNull(ParseRejects(input))
    /\ phase' = "parseFailed"
    /\ output' = ParseRejects(input)
    /\ UNCHANGED <<tmpfiles, store, calls, archive, resp, created, input, prow, precords>>

ParseIterate ==
    /\ phase = "parsing"
    /\ ~ParseStep(input, HeaderColumns(input), prow, precords).done
    /\ prow' = ParseStep(input, HeaderColumns(input), prow, precords).row
    /\ precords' = ParseStep(input, HeaderColumns(input), prow, precords).records
    /\ UNCHANGED <<tmpfiles, store, calls, archive, resp, created, input, output, phase>>

ParseReturn ==
    /\ phase = "parsing"
    /\ ParseStep(input, HeaderColumns(input), prow, precords).done
    /\ phase' = "parsed"
    /\ output' = ParsedWorkbook(HeaderNames(HeaderColumns(input)), precords)
    /\ UNCHANGED <<tmpfiles, store, calls, archive, resp, created, input, prow, precords>>

NextParse == ParseBegin \/ ParseThrows \/ ParseIterate \/ ParseReturn

SpecParse == InitParse /\ [][NextParse]_vars

\* the raw cell (r, c) of the sheet under parse, rows and columns from 0
RawCell(r, c) == Trim(input.rows[r + 1][c + 1])
RowsAfter(r) == Len(input.rows) - 1 - r
StartsBlock(r) == Len(RawCell(r, 0)) > 0 /\ Len(RawCell(r, 1)) > 0

\* the sheet is a header row followed by n contiguous well-formed 5-row blocks
WellFormedSheet(n) ==
    /\ Len(input.rows) = 1 + 5 * n
    /\ \A k \in 0..(n - 1) : StartsBlock(1 + 5 * k)

ParseStepIsByBlocks ==
    (phase = "parsing" /\ prow <= Len(input.rows) - 1) =>
       /\ (StartsBlock(prow) /\ RowsAfter(prow) >= 4) =>
             /\ phase' = "parsing"
             /\ prow' = prow + 5
             /\ Len(precords') = Len(precords) + 1
             /\ SubSeq(precords', 1, Len(precords)) = precords
             /\ precords'[Len(precords')].metrics[1].startValue = RawCell(prow, 2)
       /\ ~StartsBlock(prow) =>
             /\ phase' = "parsing"
             /\ prow' = prow + 1
             /\ precords' = precords
       /\ RowsAfter(prow) < 4 => precords' = precords

ParseOfWellFormedSheet ==
    phase = "parsed" =>
       /\ output.records = precords
       /\ \A n \in 0..Len(input.rows) :
            WellFormedSheet(n) =>
               /\ Len(output.records) = n
               /\ \A k \in 1..n :
                    output.records[k].metrics[1].startValue = RawCell(1 + 5 * (k - 1), 2)

\* C10: from row 1 on, a row with apartment and period start and at least four
\* rows after it emits one record and advances five rows; a row that lacks
\* either advances one row; nothing is emitted once fewer than five rows
\* remain; so a header row followed by N contiguous well-formed blocks yields
\* exactly N records, in sheet order.
ParseScansFiveRowBlocks ==
    /\ [][ParseStepIsByBlocks]_vars
    /\ [](phase = "parsing" /\ prow = 1 => precords = <<>>)
    /\ []ParseOfWellFormedSheet

\* C10 witness: a sheet of two contiguous blocks, whose inner rows look like
\* block starts, has been parsed into two records.
ParsedTwoBlocks ==
    /\ phase = "parsed"
    /\ WellFormedSheet(2)
    /\ StartsBlock(2)
    /\ Len(output.records) = 2

(***************************************************************************)
(* Spec: uploads (one step per file of the batch, then the final block)    *)
(* interleaved with summary, pivot-export and year-over-year requests.     *)
(***************************************************************************)
MaxSessions == 2

Callers == { "u1", "u2" }

\* the five rows of a block; cols[i] = <<start, end, consumption, rate, total>>
BlockRows(apartment, dateFrom, dateTo, cols) ==
    << <<apartment, dateFrom>> \o [i \in 1..Len(cols) |-> cols[i][1]],
       <<<<>>, dateTo>>         \o [i \in 1..Len(cols) |-> cols[i][2]],
       <<<<>>, <<>>>>           \o [i \in 1..Len(cols) |-> cols[i][3]],
       <<<<>>, <<>>>>           \o [i \in 1..Len(cols) |-> cols[i][4]],
       <<<<>>, <<>>>>           \o [i \in 1..Len(cols) |-> cols[i][5]] >>

GoodColumn == << <<"0">>, <<"1">>, <<"1">>, <<"2", ",", "5">>, <<"2", ",", "5">> >>
BadColumn  == << <<"1">>, <<"2">>, <<"1", ",", "0", "6">>, <<"1">>, <<"1", ",", "0", "6">> >>
Blank5     == << <<>>, <<>>, <<>>, <<>>, <<>> >>

SheetA ==
    [readable |-> TRUE,
     rows |-> << << <<"L">>, <<"D">>, Woda >> >>
              \o BlockRows(Lokal1, Jan01, Jun30, <<GoodColumn>>)]

SheetB ==
    [readable |-> TRUE,
     rows |-> << << <<"L">>, <<"D">>, Woda, Prad, Prad >> >>
              \o BlockRows(Lokal1, Jan01, Jun30, <<BadColumn, GoodColumn, Blank5>>)
              \o BlockRows(Lokal2, Jul01Polish, Dec31, <<GoodColumn, Blank5, BadColumn>>)]

SheetC == [readable |-> TRUE, rows |-> << << <<"L">>, <<"D">> >> >>]

XlsxMime == "application/vnd.openxmlformats-officedocument.spreadsheetml.sheet"

FileA == [originalname |-> "a.xlsx", extension |-> ".xlsx", mimetype |-> XlsxMime,
          hasBuffer |-> TRUE, hasPath |-> FALSE, content |-> SheetA]
FileB == [originalname |-> "b", extension |-> "", mimetype |-> "text/csv",
          hasBuffer |-> FALSE, hasPath |-> TRUE, content |-> SheetB]
FileC == [originalname |-> "c.xls", extension |-> ".xls", mimetype |-> "application/octet-stream",
          hasBuffer |-> TRUE, hasPath |-> TRUE, content |-> SheetC]
FileD == [originalname |-> "d.txt", extension |-> ".txt", mimetype |-> "text/plain",
          hasBuffer |-> TRUE, hasPath |-> TRUE, content |-> SheetA]
FileE == [originalname |-> "e.xlsx", extension |-> ".xlsx", mimetype |-> XlsxMime,
          hasBuffer |-> FALSE, hasPath |-> FALSE, content |-> SheetA]

FilePool == { FileA, FileB, FileC, FileD, FileE }

\* the file of the request body whose originalname is `name`
FileNamed(name) == CHOOSE f \in FilePool : f.originalname = name

\* the batches each caller of the model sends, as the originalnames of the
\* files in order
Batches(c) ==
    IF c = "u1"
      THEN { <<>>, <<"a.xlsx">>, <<"a.xlsx", "b">>, <<"a.xlsx", "d.txt">>, <<"e.xlsx">> }
      ELSE { <<"c.xls", "b">>, <<"c.xls">>, <<"d.txt", "b">> }

Requests(uploadId) ==
    { NoRequest(uploadId),
      [NoRequest(uploadId) EXCEPT !.includeOnlyMismatches = Some(TRUE),
                                  !.metrics = Some(<< <<" ", "W">> >>)] }

Init ==
    /\ store = <<>>
    /\ created = <<>>
    /\ calls = [c \in Callers |-> IdleCall]
    /\ archive = {}
    /\ tmpfiles = {}
    /\ resp = NoResp
    /\ phase = "serving" /\ input = <<>> /\ output = <<>>
    /\ ParserIdle

Running == { c \in Callers : calls[c].pc # "idle" }

TempFilesOf(c) == { t \in tmpfiles : t[1] = c }

\* what a finished call hands back: the value returned or the error thrown,
\* with what the call leaves behind: the temporary files of its batch still on
\* disk and the files it wrote to blob storage (neither is touched again)
UploadResponse(c, call, result, temps, blobs) ==
    [op |-> "upload", caller |-> c, files |-> call.files,
     threw |-> call.pc = "threw", message |-> call.thrown, result |-> result,
     storageFailed |-> call.storageFailed,
     leftover |-> { t[2] : t \in { x \in temps : x[1] = c } },
     archived |-> { t[2] : t \in { x \in blobs : x[1] = c } }]

\* line 230-233 and the temporary files the transport wrote for the batch
UploadBegin(c, files) ==
    /\ calls[c].pc = "idle"
    /\ Cardinality(DOMAIN store) + Cardinality(Running) < MaxSessions
    /\ IF Len(files) = 0
         THEN /\ resp' = UploadResponse(c, Throw(IdleCall, "At least one file is required"), Null,
                                            {}, {})
              /\ UNCHANGED <<calls, tmpfiles>>
         ELSE /\ calls' = [calls EXCEPT ![c] = StartCall(files)]
              /\ tmpfiles' = tmpfiles \cup { <<c, i>> : i \in { k \in 1..Len(files) : FileNamed(files[k]).hasPath } }
              /\ resp' = NoResp
    /\ UNCHANGED <<store, created, archive, phase, input, output, prow, precords>>

\* cleanupUploadedTempFile runs in the `finally` of the try that
\* validateExcelFile precedes: lines 254-255 and 297-299
TempFilesAfter(c, idx, file) ==
    IF ValidateExcelFile(file) THEN tmpfiles \ { <<c, idx>> } ELSE tmpfiles

\* lines 256-267: the write to blob storage
ArchiveAfter(c, file, storageOk) ==
    IF ValidateExcelFile(file) /\ CanReadBuffer(file) /\ storageOk
      THEN archive \cup { <<c, file.originalname>> } ELSE archive

\* the call goes on as n, or ends with the error n carries
UploadFileTo(c, n, kept, archived) ==
    IF n.pc = "threw"
      THEN /\ calls' = [calls EXCEPT ![c] = IdleCall]
           /\ resp' = UploadResponse(c, n, Null, kept, archived)
           /\ tmpfiles' = { t \in kept : t[1] # c }
           /\ archive' = { t \in archived : t[1] # c }
      ELSE /\ calls' = [calls EXCEPT ![c] = n]
           /\ resp' = NoResp
           /\ tmpfiles' = kept
           /\ archive' = archived

UploadFileOf(c, call, file, storageOk) ==
    UploadFileTo(c, FileStep(call, file, storageOk), TempFilesAfter(c, call.idx, file),
                 ArchiveAfter(c, file, storageOk))

\* one iteration of the loop: validate, read, archive, parse, clean up
UploadFile(c, storageOk) ==
    /\ calls[c].pc = "loop"
    /\ calls[c].idx <= Len(calls[c].files)
    /\ UploadFileOf(c, calls[c], FileNamed(calls[c].files[calls[c].idx]), storageOk)
    /\ UNCHANGED <<store, created, phase, input, output, prow, precords>>

\* lines 317-331: the merged workbook is stored under a new id
StoreSession(c, call, uploadId, mergedWorkbook) ==
    /\ store' = StoreSet(store, uploadId, NewSession(mergedWorkbook, call.sourceFileNames, c))
    /\ created' = [x \in DOMAIN created \cup {uploadId} |->
                     IF x = uploadId THEN [files |-> call.files, caller |-> c]
                     ELSE created[x]]
    /\ resp' = UploadResponse(c, call,
                  UploadResult(call, Some(BuildAnalysisDraft(uploadId, mergedWorkbook,
                                                              call.sourceFileNames))),
                  tmpfiles, archive)

\* lines 302-339
UploadFinish(c) ==
    /\ calls[c].pc = "loop"
    /\ calls[c].idx > Len(calls[c].files)
    /\ IF Len(calls[c].parsedWorkbooks) > 0
         THEN StoreSession(c, calls[c], NewUploadId(store),
                           MergeParsedWorkbooks(calls[c].parsedWorkbooks))
         ELSE /\ UNCHANGED <<store, created>>
              /\ resp' = UploadResponse(c, calls[c], UploadResult(calls[c], Null),
                                        tmpfiles, archive)
    /\ calls' = [calls EXCEPT ![c] = IdleCall]
    /\ tmpfiles' = tmpfiles \ TempFilesOf(c)
    /\ archive' = { t \in archive : t[1] # c }
    /\ UNCHANGED <<phase, input, output, prow, precords>>

\* lines 919-921 and 391-393 end in "summary", lines 461-463 in "report"
SessionNotFound(op) ==
    IF op = "yoy" THEN "Upload session not found. Upload file again before report."
    ELSE "Upload session not found. Upload file again before summary."

\* what the three request handlers share: the session lookup (lines 917-922,
\* 388-394, 458-464) and buildDetailedRows on the session's workbook; the
\* tables each handler derives from the detailed rows are functions of them
Response(op, request, session) ==
    IF IsNull(session)
      THEN [op |-> op, request |-> request, threw |-> TRUE,
            message |-> Some(SessionNotFound(op)), rows |-> <<>>]
      ELSE [op |-> op, request |-> request, threw |-> FALSE, message |-> Null,
            rows |-> BuildDetailedRows(request, Val(session).workbook,
                        ResolveSelectedMetrics(request.metrics,
                                               Val(session).workbook.headers))]

\* a handler that sorts the stored records in place, latest first, while it
\* answers
RespondReordering(op, request) ==
    /\ resp' = Response(op, request, StoreGet(store, request.uploadId))
    /\ store' = [id \in DOMAIN store |->
                   IF id = request.uploadId
                     THEN [store[id] EXCEPT !.workbook.records =
                             [i \in 1..Len(@) |-> @[Len(@) + 1 - i]]]
                     ELSE store[id]]
    /\ UNCHANGED <<created, calls, archive, tmpfiles, phase, input, output, prow, precords>>

Respond(op, request) ==
    /\ resp' = Response(op, request, StoreGet(store, request.uploadId))
    /\ UNCHANGED <<store, created, calls, archive, tmpfiles, phase, input, output, prow, precords>>

\* the ids of the stored sessions and one id that names none
UploadIds == DOMAIN store \cup { NewUploadId(store) }

BuildSummary == \E id \in UploadIds : \E r \in Requests(id) : Respond("summary", r)

BuildSummaryExcelFile == \E id \in UploadIds : \E r \in Requests(id) : Respond("export", r)

BuildYearOverYearExcelFile == \E id \in UploadIds : \E r \in Requests(id) : Respond("yoy", r)

UploadBegins == \E c \in Callers : \E files \in Batches(c) : UploadBegin(c, files)

UploadsFile == \E c \in Callers : \E storageOk \in BOOLEAN : UploadFile(c, storageOk)

UploadFinishes == \E c \in Callers : UploadFinish(c)

Next ==
    \/ UploadBegins
    \/ UploadsFile
    \/ UploadFinishes
    \/ BuildSummary
    \/ BuildSummaryExcelFile
    \/ BuildYearOverYearExcelFile

Spec == Init /\ [][Next]_vars

(***************************************************************************)
(* Properties of the session lifecycle.                                    *)
(***************************************************************************)
RequestOps == { "summary", "export", "yoy" }

\* the workbooks of the files of a batch that parse, in batch order
RECURSIVE ParsedOf(_)
ParsedOf(names) ==
    IF Len(names) = 0 THEN <<>>
    ELSE (IF ParseWorkbookFromBuffer(FileNamed(Head(names)).content).ok
            THEN <<ParseWorkbookFromBuffer(FileNamed(Head(names)).content).workbook>>
            ELSE <<>>)
         \o ParsedOf(Tail(names))

FailsToParse(name) == ~ParseWorkbookFromBuffer(FileNamed(name).content).ok

\* the message of the last file of the batch that fails to parse, or null
RECURSIVE LastParseError(_)
LastParseError(names) ==
    IF Len(names) = 0 THEN Null
    ELSE IF FailsToParse(names[Len(names)])
      THEN Some(ParseWorkbookFromBuffer(FileNamed(names[Len(names)]).content).message)
    ELSE LastParseError(SubSeq(names, 1, Len(names) - 1))

\* what a batch whose files were all archived is to return, given its parsed
\* workbooks
ReturnsDraftOf(result, files, parsed) ==
    /\ result.uploaded = TRUE
    /\ result.filesCount = Len(files)
    /\ result.uploadedFiles = files
    /\ result.analysisDraftError = LastParseError(files)
    /\ IF Len(parsed) = 0 THEN IsNull(result.analysisDraft)
       ELSE /\ ~IsNull(result.analysisDraft)
            /\ Val(result.analysisDraft) =
                 BuildAnalysisDraft(Val(result.analysisDraft).uploadId,
                                    MergeParsedWorkbooks(parsed), files)

\* a call throws only for an empty batch, a file of an unsupported type, a
\* file without content or a failed archival write
ThrowsOnlyForUploadErrors ==
    (resp.op = "upload" /\ resp.threw) =>
       \/ Len(resp.files) = 0
       \/ resp.storageFailed
       \/ \E i \in 1..Len(resp.files) :
            ~ValidateExcelFile(FileNamed(resp.files[i]))
            \/ ~CanReadBuffer(FileNamed(resp.files[i]))

\* C3: when a file was archived but its parse fails the batch is not aborted:
\* the call does not throw for it, the remaining files are processed
\* (archived), the call returns uploaded = true with analysisDraftError set to
\* the parse error message, and the draft is the one built from the merge of
\* every file of the batch that did parse (null when none did).
ParseFailureDoesNotAbortBatch ==
    /\ ThrowsOnlyForUploadErrors
    /\ (resp.op = "upload" /\ ~resp.threw) =>
          ReturnsDraftOf(resp.result, resp.files, ParsedOf(resp.files))

\* C3 witness: a batch whose first file was archived and failed to parse and
\* whose second file parsed has returned a draft and the parse error.
BatchWithUnparsableFileReturned ==
    /\ resp.op = "upload" /\ ~resp.threw
    /\ Len(resp.files) = 2
    /\ FailsToParse(resp.files[1]) /\ ~FailsToParse(resp.files[2])
    /\ ~IsNull(resp.result.analysisDraftError)
    /\ ~IsNull(resp.result.analysisDraft)
    /\ resp.result.uploadedFiles = resp.files

\* C4 as stated: a failed archival write for a file does not block the
\* analysis: the call does not throw and returns the analysis draft.
ArchivalFailureDoesNotBlockDraft ==
    (resp.op = "upload" /\ resp.storageFailed) =>
       (~resp.threw /\ ~IsNull(resp.result.analysisDraft))

SessionsAreKept ==
    \A id \in DOMAIN store : id \in DOMAIN store' /\ store'[id] = store[id]

\* the store changes only by a returning upload, which adds one session under
\* the id its draft carries, an id that was not in the store
StoreGrowsByReturnedDraft ==
    (store' # store) =>
       /\ resp'.op = "upload" /\ ~resp'.threw
       /\ ~IsNull(resp'.result.analysisDraft)
       /\ Val(resp'.result.analysisDraft).uploadId \notin DOMAIN store
       /\ DOMAIN store' = DOMAIN store \cup { Val(resp'.result.analysisDraft).uploadId }

\* an upload that returns a draft has added exactly one session, under that id
ReturnedDraftAddsOneSession ==
    (resp'.op = "upload" /\ calls' # calls /\ ~resp'.threw
       /\ ~IsNull(resp'.result.analysisDraft)) =>
       /\ Cardinality(DOMAIN store') = Cardinality(DOMAIN store) + 1
       /\ Val(resp'.result.analysisDraft).uploadId \in DOMAIN store' \ DOMAIN store
       /\ Val(resp'.result.analysisDraft).uploadId \in DOMAIN created'

StoredSessionIsFound ==
    (resp.op \in RequestOps /\ resp.request.uploadId \in DOMAIN store) => ~resp.threw

\* C5: once an upload has returned a draft with session id S (S is in
\* `created`), S stays in the store and every later summary, pivot-export or
\* year-over-year request that names S finds it: each returning upload adds
\* exactly one session under an id not in the store, and no step removes or
\* replaces a stored session.
ReturnedSessionIsFoundForever ==
    /\ [][SessionsAreKept /\ StoreGrowsByReturnedDraft /\ ReturnedDraftAddsOneSession]_vars
    /\ [](DOMAIN created \subseteq DOMAIN store)
    /\ []StoredSessionIsFound

\* C5 witness: after a second session was added, a request that names the
\* first one has found it.
FirstSessionFoundAfterSecondUpload ==
    /\ Cardinality(DOMAIN store) = 2
    /\ resp.op \in RequestOps
    /\ resp.request.uploadId = 1
    /\ ~resp.threw

UnknownSessionIsRefused ==
    (resp.op \in RequestOps /\ resp.request.uploadId \notin DOMAIN store) =>
       /\ resp.threw
       /\ resp.message = Some(SessionNotFound(resp.op))
       /\ resp.rows = <<>>

\* C6: buildSummary, buildSummaryExcelFile and buildYearOverYearExcelFile each
\* fail with the session-not-found error whenever request.uploadId is not a key
\* of the store; the failing request returns no rows and leaves the store
\* unchanged.
UnknownSessionFailsAndStoreUnchanged ==
    /\ []UnknownSessionIsRefused
    /\ [][(resp'.op \in RequestOps /\ resp'.threw) => store' = store]_vars

\* C6 witness: with a session stored, a year-over-year request that names
\* another id has been refused.
UnknownSessionRefusedBesideStoredOne ==
    /\ DOMAIN store # {}
    /\ resp.op = "yoy"
    /\ resp.request.uploadId \notin DOMAIN store
    /\ resp.threw

\* the session the upload that made `id` stored: the merge of the files of its
\* batch that parsed, the names of the batch, the caller
SessionAtCreation(id) ==
    NewSession(MergeParsedWorkbooks(ParsedOf(created[id].files)), created[id].files,
               created[id].caller)

AnswerDependsOnOwnSession ==
    (resp.op \in RequestOps /\ ~resp.threw) =>
       resp.rows = BuildDetailedRows(resp.request,
                      SessionAtCreation(resp.request.uploadId).workbook,
                      ResolveSelectedMetrics(resp.request.metrics,
                         SessionAtCreation(resp.request.uploadId).workbook.headers))

\* C7: sessions are independent under any interleaving of uploads and
\* requests: every stored session is the one stored at its creation (workbook,
\* source files, owner), no step changes it, and the rows a request on session
\* S is answered with depend only on the request and on that workbook.
SessionsAreIndependent ==
    /\ [](\A id \in DOMAIN store : store[id] = SessionAtCreation(id))
    /\ [][\A id \in DOMAIN store : store'[id] = store[id]]_vars
    /\ []AnswerDependsOnOwnSession

\* C7 witness: two sessions with different workbooks are stored, the second
\* made by another caller, and a request on the first has been answered with
\* rows.
RequestAnsweredBesideOtherSession ==
    /\ DOMAIN store = {1, 2}
    /\ store[1].workbook # store[2].workbook
    /\ store[1].requestedByUserId # store[2].requestedByUserId
    /\ resp.op \in RequestOps
    /\ resp.request.uploadId = 1
    /\ Len(resp.rows) > 0

HeaderSet(workbook) == { workbook.headers[i] : i \in 1..Len(workbook.headers) }

SamePeriod(a, b) ==
    a.apartment = b.apartment /\ a.dateFrom = b.dateFrom /\ a.dateTo = b.dateTo

\* `record` is the record `source` of the parsed file `file`, aligned to
\* `headers`: the file's metric (the last of a repeated name) where the file
\* has the header, the empty placeholder where it has not
AlignedFrom(record, headers, file, source) ==
    /\ SamePeriod(record, source)
    /\ \A i \in 1..Len(headers) :
         IF headers[i] \in HeaderSet(file)
           THEN \E c \in 1..Len(source.metrics) :
                  /\ source.metrics[c] = record.metrics[i]
                  /\ \A d \in (c + 1)..Len(source.metrics) :
                       source.metrics[d].metric # headers[i]
           ELSE record.metrics[i] =
                  [metric |-> headers[i], startValue |-> <<>>, endValue |-> <<>>,
                   consumption |-> <<>>, rate |-> <<>>, total |-> <<>>]

WorkbookIsAligned(workbook, parsed) ==
    /\ \A i, j \in 1..Len(workbook.headers) :
         i # j => workbook.headers[i] # workbook.headers[j]
    /\ HeaderSet(workbook) = UNION { HeaderSet(parsed[k]) : k \in 1..Len(parsed) }
    /\ \A n \in 1..Len(workbook.records) :
         /\ Len(workbook.records[n].metrics) = Len(workbook.headers)
         /\ \A i \in 1..Len(workbook.headers) :
              workbook.records[n].metrics[i].metric = workbook.headers[i]
         /\ \E k \in 1..Len(parsed) : \E m \in 1..Len(parsed[k].records) :
              AlignedFrom(workbook.records[n], workbook.headers, parsed[k],
                          parsed[k].records[m])

\* C9: in every stored session the workbook's headers are duplicate-free and
\* are the union of the headers of the parsed files of the batch, and every
\* record's metrics are aligned 1:1 to the headers (same length,
\* metrics[i].metric = headers[i]), with a placeholder of five empty values for
\* each metric the record's source file did not have.
StoredWorkbookIsAligned ==
    \A id \in DOMAIN store :
       WorkbookIsAligned(store[id].workbook, ParsedOf(created[id].files))

\* C9 witness: a session made from two parsed files with different headers,
\* one of which repeats a header, holds a record with a placeholder.
SessionWithPlaceholder ==
    \E id \in DOMAIN store :
       /\ Len(ParsedOf(created[id].files)) = 2
       /\ Len(ParsedOf(created[id].files)[2].headers) = 3
       /\ Len(store[id].workbook.headers) = 2
       /\ \E n \in 1..Len(store[id].workbook.records) :
            store[id].workbook.records[n].metrics[2] = EmptyMetric(store[id].workbook.headers[2])


(***************************************************************************)
(* What a failing or finishing upload leaves behind.                       *)
(***************************************************************************)
\* C23: an upload batch completes or fails atomically: whenever
\* uploadExcelFiles fails (unsupported type, file without content, storage
\* failure at any position of the batch), no session has been created and no
\* file of the batch has been archived to blob storage.
FailedUploadLeavesNothing ==
    [][resp'.op = "upload" /\ resp'.threw => store' = store /\ resp'.archived = {}]_vars

\* a failed upload creates no session
FailedUploadCreatesNoSession ==
    [][resp'.op = "upload" /\ resp'.threw => store' = store /\ created' = created]_vars

\* the batch a.xlsx, d.txt fails on its second file with the first archived
FailedAfterArchivedFile ==
    /\ resp.op = "upload"
    /\ resp.threw
    /\ resp.files = <<"a.xlsx", "d.txt">>
    /\ resp.archived = {"a.xlsx"}

\* C26: when uploadExcelFiles finishes, whether it returns or throws, the
\* temporary file of every file of the batch that has a path has been removed.
FinishedUploadLeavesNoTempFile ==
    resp.op = "upload" => resp.leftover = {}

\* an upload that returns leaves no temporary file
ReturnedUploadLeavesNoTempFile ==
    resp.op = "upload" /\ ~resp.threw => resp.leftover = {}

\* the batch d.txt, b fails on its first file; the temporary files of both
\* files stay
FailedWithTempFilesLeft ==
    /\ resp.op = "upload"
    /\ resp.threw
    /\ resp.files = <<"d.txt", "b">>
    /\ resp.leftover = {1, 2}

(***************************************************************************)
(* The source files of a session and of a draft.                           *)
(***************************************************************************)
NamesParsed(names) == \A i \in 1..Len(names) : ~FailsToParse(names[i])

\* C27: every name in a stored session's sourceFiles, and in the returned
\* draft's sourceFiles and filesCount, is a file of the batch that parsed and
\* whose records are part of the session's merged workbook.
SourceFilesAreParsedFiles ==
    /\ \A id \in DOMAIN store : NamesParsed(store[id].sourceFiles)
    /\ (resp.op = "upload" /\ ~resp.threw /\ ~IsNull(resp.result.analysisDraft)) =>
          /\ NamesParsed(Val(resp.result.analysisDraft).sourceFiles)
          /\ Val(resp.result.analysisDraft).filesCount = Len(ParsedOf(resp.files))

\* the source files are the archived files of the batch, parsed or not
SourceFilesAreArchivedFiles ==
    /\ \A id \in DOMAIN store : store[id].sourceFiles = created[id].files
    /\ (resp.op = "upload" /\ ~resp.threw /\ ~IsNull(resp.result.analysisDraft)) =>
          /\ Val(resp.result.analysisDraft).sourceFiles = resp.files
          /\ Val(resp.result.analysisDraft).filesCount = Len(resp.files)

\* a session names a file that did not parse among its source files
SessionNamesUnparsedFile ==
    \E id \in DOMAIN store : \E i \in 1..Len(store[id].sourceFiles) :
       /\ FailsToParse(store[id].sourceFiles[i])
       /\ Len(store[id].workbook.records) > 0

(***************************************************************************)
(* The draft an upload returns and the session it stores.                  *)
(***************************************************************************)
DraftOf(r) == Val(r.result.analysisDraft)

DraftNamesNewSession ==
    /\ DraftOf(resp').uploadId \notin DOMAIN store
    /\ DOMAIN store' = DOMAIN store \cup { DraftOf(resp').uploadId }
    /\ \A id \in DOMAIN store : store'[id] = store[id]
    /\ DraftOf(resp').recordsCount
         = Len(store'[DraftOf(resp').uploadId].workbook.records)

ReturningUploadStoresWhatItDrafts ==
    /\ ~IsNull(resp'.result.analysisDraft)
         <=> \E i \in 1..Len(resp'.files) : ~FailsToParse(resp'.files[i])
    /\ IF IsNull(resp'.result.analysisDraft) THEN store' = store ELSE DraftNamesNewSession

\* C28: for every upload that returns, analysisDraft is non-null if and only
\* if at least one file of the batch parsed; a session is added to the store
\* in exactly that case, under the key analysisDraft.uploadId, and
\* analysisDraft.recordsCount is the number of records of the stored workbook;
\* when no file parsed the store is unchanged.
DraftIffParsedAndSessionStored ==
    [][resp'.op = "upload" /\ ~resp'.threw /\ calls' # calls
          => ReturningUploadStoresWhatItDrafts]_vars

\* C28 witness: the batch a.xlsx, b has returned a draft of three records and
\* the session of that id holds them.
DraftOfThreeRecordsStored ==
    /\ resp.op = "upload" /\ ~resp.threw
    /\ resp.files = <<"a.xlsx", "b">>
    /\ ~IsNull(resp.result.analysisDraft)
    /\ DraftOf(resp).uploadId \in DOMAIN store
    /\ DraftOf(resp).recordsCount = 3
    /\ Len(store[DraftOf(resp).uploadId].workbook.records) = 3

\* the batch c.xls, of which nothing parsed, has returned without a draft
UploadReturnedWithoutDraft ==
    /\ resp.op = "upload" /\ ~resp.threw
    /\ resp.files = <<"c.xls">>
    /\ IsNull(resp.result.analysisDraft)


(***************************************************************************)
(* SpecTwice: the export of a session made from a batch that holds a file  *)
(* once or twice.  mergeParsedWorkbooks keys the records by the index of   *)
(* the workbook (line 1874), so the records of a file uploaded twice are   *)
(* both kept.                                                              *)
(***************************************************************************)
FeeFiles ==
    { ParsedWorkbook(<<feeName, Woda>>, FeeRecords(feeName, choice)) :
        feeName \in FeeSpellings,
        choice \in UNION { [1..n -> FeeChoices] : n \in 1..MaxFeeRecords } }

FeeBatches == { <<file>> : file \in FeeFiles } \cup { <<file, file>> : file \in FeeFiles }

TwiceInputs ==
    { [request  |-> [NoRequest(1) EXCEPT !.exportColumns = columns],
       batch    |-> batch,
       workbook |-> MergeParsedWorkbooks(batch)] :
      columns \in { Null, Some(<<"reportedTotal">>), Some(<<"rate">>) },
      batch \in FeeBatches }

InitTwice ==
    /\ SessionsIdle /\ ParserIdle
    /\ phase = "export"
    /\ input \in TwiceInputs
    /\ output = <<>>

SpecTwice == InitTwice /\ [][NextExport]_vars

\* the pivot rows of the fee metric
FeePivotRows == SelectSeq(output.payload.rows, LAMBDA row : IsFixedFee(row.metric))

\* the reported-total values the fee pivot rows show in the q-th period
ShownFeeTotals(q) ==
    [i \in 1..Len(FeePivotRows) |->
        CellAt(FeePivotRows[i], q, ArrayIndexOf(ExportedColumns, "reportedTotal") + 1).value]

SomeOf(values) == SelectSeq(values, LAMBDA v : ~IsNull(v))

SumOfShown(values) == SumSeq([i \in 1..Len(SomeOf(values)) |-> Val(SomeOf(values)[i])])

RollupOfPeriod(q) ==
    MapGet(output.payload.fixedFeeSummary, LabelAsKey(output.payload.periods[q].label))

RollupIsSumOfShownTotals ==
    \A q \in 1..Len(output.payload.periods) :
       IF Len(SomeOf(ShownFeeTotals(q))) = 0
         THEN IsNull(RollupOfPeriod(q))
         ELSE RollupOfPeriod(q) = Some(SumOfShown(ShownFeeTotals(q)))

\* C29: in every export payload the fixed-fee rollup of a period equals the
\* sum of the reported-total values shown in that period's cells of the pivot
\* rows whose metric is the fixed fee, also when the session holds several
\* records with the same apartment and period (the same file uploaded twice
\* in one batch).
FeeRollupIsSumOfShownCells ==
    (phase = "exportDone" /\ InSeq(ExportedColumns, "reportedTotal"))
       => RollupIsSumOfShownTotals

\* the same, for the sessions made of one file
FeeRollupIsSumOfShownCellsOfOneFile ==
    (phase = "exportDone" /\ InSeq(ExportedColumns, "reportedTotal") /\ Len(input.batch) = 1)
       => RollupIsSumOfShownTotals

\* a file with one fee of 10 uploaded twice: the rollup of the period is 20
\* and the only fee cell of the period shows 10
FeeOfTwiceUploadedFileDoubled ==
    /\ phase = "exportDone"
    /\ Len(input.batch) = 2
    /\ Len(input.batch[1].records) = 1
    /\ Len(input.workbook.records) = 2
    /\ InSeq(ExportedColumns, "reportedTotal")
    /\ Len(output.payload.periods) = 1
    /\ RollupOfPeriod(1) = Some(20 * SCALE)
    /\ ShownFeeTotals(1) = <<Some(10 * SCALE)>>

\* a session of one file with fees in both half years, shown as they are summed
FeeOfOneFileShownAsSummed ==
    /\ phase = "exportDone"
    /\ Len(input.batch) = 1
    /\ InSeq(ExportedColumns, "reportedTotal")
    /\ Len(output.payload.periods) = 2
    /\ RollupOfPeriod(1) = Some(20 * SCALE)
    /\ Len(SomeOf(ShownFeeTotals(1))) = 2


(***************************************************************************)
(* The three request handlers only read the store (lines 388, 458, 917).   *)
(***************************************************************************)
\* a step that answers a request leaves the store as it is: the same keys,
\* and in every session the same headers and the same records in their order
RequestStepKeepsStore ==
    (resp' # resp /\ resp'.op \in RequestOps) =>
       /\ DOMAIN store' = DOMAIN store
       /\ \A id \in DOMAIN store :
             /\ store'[id].workbook.headers = store[id].workbook.headers
             /\ store'[id].workbook.records = store[id].workbook.records

\* the request last answered, asked again now, is answered as it was
AnsweredAgainTheSame ==
    resp.op \in RequestOps =>
       Response(resp.op, resp.request, StoreGet(store, resp.request.uploadId)) = resp

\* the tables of the three handlers over the workbook now stored are those
\* over the workbook as it was stored by the upload
TablesAsAtCreation ==
    (resp.op \in RequestOps /\ ~resp.threw) =>
       /\ BuildSummaryData(resp.request, store[resp.request.uploadId].workbook)
            = BuildSummaryData(resp.request, SessionAtCreation(resp.request.uploadId).workbook)
       /\ ExportOf(resp.request, store[resp.request.uploadId].workbook)
            = ExportOf(resp.request, SessionAtCreation(resp.request.uploadId).workbook)
       /\ YearOverYearOf(resp.request, store[resp.request.uploadId].workbook)
            = YearOverYearOf(resp.request, SessionAtCreation(resp.request.uploadId).workbook)

\* C30: summary, pivot-export and year-over-year requests are read-only: after
\* any such request the session store has the same keys and every stored
\* workbook has the same headers and the same records in the same order, so
\* repeating an identical request on the same session returns the same rows,
\* totals and statuses.
RequestsAreReadOnly ==
    /\ [][RequestStepKeepsStore]_vars
    /\ []AnsweredAgainTheSame
    /\ []TablesAsAtCreation

\* C30 witness: a year-over-year request on a stored session of two or more
\* records has been answered with rows, and the session is as it was stored.
YearOverYearAnsweredOverStoredSession ==
    /\ resp.op = "yoy"
    /\ ~resp.threw
    /\ Len(resp.rows) >= 2
    /\ Len(store[resp.request.uploadId].workbook.records) >= 2
    /\ store[resp.request.uploadId] = SessionAtCreation(resp.request.uploadId)

====
